---------------------------- MODULE Spec2Model ----------------------------
(***************************************************************************)
(* Model of the permissioned ledger of blockchain-poc-full: db.js (the     *)
(* SQLite ledger store), routes/blocks.js (mining and block reception),    *)
(* routes/transactions.js (transaction admission) and index.js (startup    *)
(* and initial chain synchronisation).                                     *)
(*                                                                         *)
(* Strings are TLA+ strings and JavaScript's + on strings is \o.  sha256   *)
(* is modelled as an ideal (collision-free) hash: sha256(s) is the string  *)
(* "H(" s ")".  The JavaScript value undefined is the string "undefined",  *)
(* which is also what string concatenation makes of it; SQLite binds it    *)
(* as NULL.  Every HTTP handler is one action (its awaits are not          *)
(* interleaved in the specification Spec).                                 *)
(***************************************************************************)
EXTENDS Integers, Sequences, FiniteSets, TLC

\* ------------------------------------------------------------------ bounds
\* Number of transactions clients submit in one behaviour.
MaxTx == 5
\* Number of requests peers post on their own, outside a broadcast: a
\* transaction or a block delivered again, damaged, or built by the peer.
MaxPosts == 1
\* Number of submissions in which the client supplies a rowHash of its own.
MaxSupplied == 1
\* Longest chain a node is driven to (guards of the chain-extending actions).
MaxChain == 3

\* ------------------------------------------------------- program constants
BLOCK_SIZE == 5
MINE_THRESHOLD == 5

\* The node identities (process.argv[4]); "0" is the Regulator.
Nodes == {"0", "1"}
RegAuth == "0"
\* The nodes clients post their measurements to: the project nodes.
Projects == Nodes \ {RegAuth}

Undefined == "undefined"

\* ----------------------------------------------------------------- hashing
sha256(s) == "H(" \o s \o ")"

\* Number + string concatenation.
NumStr(i) == ToString(i)

Falsy(s) == s = "" \/ s = Undefined

\* The time of the wall clock as new Date().toISOString() prints it.
toISOString(t) == "T" \o ToString(t)

RECURSIVE JoinFrom(_, _)
JoinFrom(parts, i) ==
    IF i > Len(parts) THEN ""
    ELSE IF i = Len(parts) THEN parts[i]
    ELSE parts[i] \o "," \o JoinFrom(parts, i + 1)

\* JSON.stringify of one {k1: v1, k2: v2} object: a key whose value is
\* undefined is left out.
JsonObject(k1, v1, k2, v2) ==
    LET f1 == IF v1 = Undefined THEN <<>> ELSE <<k1 \o ":" \o v1>>
        f2 == IF v2 = Undefined THEN <<>> ELSE <<k2 \o ":" \o v2>>
    IN  "{" \o JoinFrom(f1 \o f2, 1) \o "}"

\* JSON.stringify(transactions.map(tx => ({ id: tx.transactionId, hash: tx.rowHash })))
transactionsForBlockHash(txs) ==
    "[" \o JoinFrom([i \in 1..Len(txs) |->
                        JsonObject("id", txs[i].transactionId, "hash", txs[i].rowHash)], 1)
        \o "]"

\* A loop that drops the last hash of an odd level.
RECURSIVE Unpadded(_)
Unpadded(hashes) ==
    IF Len(hashes) <= 1 THEN hashes[1]
    ELSE Unpadded([i \in 1..(Len(hashes) \div 2) |->
                      sha256(hashes[2 * i - 1] \o hashes[2 * i])])

RECURSIVE MerkleLoop(_)
MerkleLoop(hashes) ==
    IF Len(hashes) <= 1 THEN hashes[1]
    ELSE LET padded == IF Len(hashes) % 2 # 0
                       THEN Append(hashes, hashes[Len(hashes)])
                       ELSE hashes
             newHashes == [i \in 1..(Len(padded) \div 2) |->
                              sha256(padded[2 * i - 1] \o padded[2 * i])]
         IN  MerkleLoop(newHashes)

calculateMerkleRoot(transactions) ==
    IF Len(transactions) = 0
    THEN sha256("empty_merkle_root_placeholder")
    ELSE MerkleLoop([i \in 1..Len(transactions) |-> transactions[i].rowHash])

\* The header hash of mineBlockInternal step 4 and of /receive check 4.
BlockHashInput(b) ==
    (IF "blockIndex" \in b.absent THEN Undefined ELSE NumStr(b.blockIndex))
    \o b.timestamp \o b.merkleRoot \o b.previousBlockHash
    \o (IF "nonce" \in b.absent THEN Undefined ELSE NumStr(b.nonce))
    \o transactionsForBlockHash(b.transactions)

BlockHash(b) == sha256(BlockHashInput(b))

\* The canonical hash of a transaction.
RowHash(transactionId, timestamp, rawDataJson) ==
    sha256(transactionId \o timestamp \o rawDataJson)

\* ------------------------------------------------------------------- state
VARIABLES
    up,         \* up[n]: node n's process is running (initDb has opened its database)
    bchain,     \* bchain[n]: the rows of table bchain, in insertion order (row id = position)
    mempool,    \* mempool[n]: the rows of table mempool_transactions
    confirmed,  \* confirmed[n]: the rows of table confirmed_transactions
    txMsgs,     \* transactions that /submit has broadcast to the peers
    blkMsgs,    \* blocks that mineBlockInternal has broadcast to the peers
    networkNodes, \* networkNodes[n]: the array of peer addresses of routes/network.js
    now,        \* the wall clock; it advances by one between two submissions
    nextTx,     \* number of transaction ids uuidv4 has generated
    posts,      \* number of requests peers have posted outside a broadcast
    accepted,   \* accepted[n]: the blocks /blocks/receive of node n has committed
                \* (history)
    call,       \* the commit in progress, statement by statement (CommitSpec),
                \* or the connection and the callers that share it
                \* (ConnectionSpec); in Spec a commit is part of its handler's step
    last        \* the request the last step served on the transaction and block
                \* routes: its route, node, body and response, and the block it
                \* committed on that node

vars == <<up, bchain, mempool, confirmed, txMsgs, blkMsgs, networkNodes, now, nextTx,
          posts, accepted, call, last>>

Range(f) == {f[i] : i \in DOMAIN f}

\* A transaction object as the routes pass it around.  The four numeric
\* measurement columns (so2, no2, pm10, pm2_5) are nullable and are carried
\* like stationID, which stands for them.
Tx(transactionId, timestamp, projId, submitterId, stationID, rawDataJson, rowHash) ==
    [transactionId |-> transactionId, timestamp |-> timestamp, projId |-> projId,
     submitterId |-> submitterId, stationID |-> stationID,
     rawDataJson |-> rawDataJson, rowHash |-> rowHash]

\* A block object.  absent names the properties the JSON object does not
\* have (among "newBlock", "blockIndex", "nonce", "transactions"); txsIsArray
\* tells whether its transactions property is an array.
Block(blockIndex, timestamp, transactions, merkleRoot, previousBlockHash, nonce, hash) ==
    [blockIndex |-> blockIndex, timestamp |-> timestamp, transactions |-> transactions,
     merkleRoot |-> merkleRoot, previousBlockHash |-> previousBlockHash,
     nonce |-> nonce, hash |-> hash, absent |-> {}, txsIsArray |-> TRUE]

\* A request body without a newBlock property.
NoBlock == [Block(0, Undefined, <<>>, Undefined, Undefined, 0, Undefined)
               EXCEPT !.absent = {"newBlock"}]

\* A transaction object without any property.
NoTx == Tx(Undefined, Undefined, Undefined, Undefined, Undefined, Undefined, Undefined)

\* What a step on the transaction and block routes leaves in last: the
\* route, the node, the response, the block the node committed, and the
\* body a peer posted (a block or a transaction).
Response(op, n, status, note, block) ==
    [op |-> op, node |-> n, status |-> status, note |-> note, block |-> block,
     request |-> NoBlock, tx |-> NoTx, error |-> ""]

NoRequest == Response("none", RegAuth, 0, "", NoBlock)

\* No commit in progress.
NoCall ==
    [pc |-> "none", op |-> "none", node |-> RegAuth, block |-> NoBlock,
     before |-> [chain |-> <<>>, conf |-> {}, pool |-> {}], chain |-> <<>>, conf |-> {}]

\* ------------------------------------------------------------ ledger store
\* A count that is one too high.
OneTooMany(n) == Cardinality(mempool[n]) + 1

getMempoolCount(n) == Cardinality(mempool[n])

\* SELECT * FROM bchain ORDER BY blockIndex DESC LIMIT 1 (null: the empty set)
getLastBlock(n) ==
    {r \in Range(bchain[n]) : \A q \in Range(bchain[n]) : q.blockIndex <= r.blockIndex}

lastBlockIndex(n) ==
    IF getLastBlock(n) = {} THEN -1 ELSE (CHOOSE r \in getLastBlock(n) : TRUE).blockIndex

lastBlockHash(n) ==
    IF getLastBlock(n) = {} THEN "0" ELSE (CHOOSE r \in getLastBlock(n) : TRUE).hash

\* A stored row as getAllBlocks returns it: transactions is the parsed
\* lightweight list, whose objects have a transactionId and a rowHash only.
RowAsBlock(r) ==
    Block(r.blockIndex, r.timestamp,
          [i \in 1..Len(r.transactions) |->
              Tx(r.transactions[i].transactionId, Undefined, Undefined, Undefined,
                 Undefined, Undefined, r.transactions[i].rowHash)],
          r.merkleRoot, r.previousBlockHash, r.nonce, r.hash)

\* SELECT * FROM bchain ORDER BY blockIndex ASC
getAllBlocks(n) ==
    LET rows == Range(bchain[n])
        rank(r) == Cardinality({q \in rows : q.blockIndex < r.blockIndex}) + 1
    IN  [i \in 1..Cardinality(rows) |-> RowAsBlock(CHOOSE r \in rows : rank(r) = i)]

TxIds(transactions) == {transactions[i].transactionId : i \in 1..Len(transactions)}

\* The mempool left as it is.
NothingRemoved(pool, transactionIds) == pool

\* DELETE FROM mempool_transactions WHERE transaction_id IN (...)
removeTransactionsFromMempool(pool, transactionIds) ==
    {t \in pool : t.transactionId \notin transactionIds}

\* The INSERT INTO bchain of addBlockToBlockchain fails: a NOT NULL column
\* is bound to undefined, or blockIndex is not UNIQUE.
BlockInsertFails(chain, block) ==
    \/ block.absent \cap {"blockIndex", "nonce"} # {}
    \/ Undefined \in {block.timestamp, block.hash, block.previousBlockHash, block.merkleRoot}
    \/ \E r \in Range(chain) : r.blockIndex = block.blockIndex

\* One of the INSERTs INTO confirmed_transactions fails: a NOT NULL column
\* is bound to undefined, or transaction_id is not UNIQUE (in the table, or
\* twice in the block).
ConfirmedInsertFails(conf, block) ==
    LET txs == block.transactions
    IN  \/ \E i \in 1..Len(txs) :
              Undefined \in {txs[i].transactionId, txs[i].projId, txs[i].timestamp,
                             txs[i].submitterId, txs[i].rawDataJson, txs[i].rowHash}
        \/ \E i \in 1..Len(txs) : \E c \in conf : c.transaction_id = txs[i].transactionId
        \/ \E i, j \in 1..Len(txs) : i # j /\ txs[i].transactionId = txs[j].transactionId

\* addBlockToBlockchain rejects: the statements between BEGIN TRANSACTION
\* and COMMIT are rolled back and nothing is stored.
addBlockFails(chain, conf, block) ==
    \/ ~block.txsIsArray
    \/ BlockInsertFails(chain, block)
    \/ ConfirmedInsertFails(conf, block)

\* The row of bchain that addBlockToBlockchain inserts.
BlockRow(chain, block) ==
    [id |-> Len(chain) + 1,
     blockIndex |-> block.blockIndex, timestamp |-> block.timestamp,
     transactions |-> [i \in 1..Len(block.transactions) |->
                          [transactionId |-> block.transactions[i].transactionId,
                           rowHash |-> block.transactions[i].rowHash]],
     nonce |-> block.nonce, hash |-> block.hash,
     previousBlockHash |-> block.previousBlockHash, merkleRoot |-> block.merkleRoot]

\* The rows of confirmed_transactions that addBlockToBlockchain inserts.
ConfirmedRows(chain, block) ==
    {[transaction_id |-> tx.transactionId, block_id |-> Len(chain) + 1,
      projId |-> tx.projId, timestamp |-> tx.timestamp, submitter_id |-> tx.submitterId,
      station_id |-> tx.stationID, raw_data_json |-> tx.rawDataJson,
      rowHash |-> tx.rowHash] : tx \in Range(block.transactions)}

\* The new row in the place of the last one.
LastRowReplaced(chain, conf, block) ==
    IF addBlockFails(chain, conf, block)
    THEN [chain |-> chain, conf |-> conf]
    ELSE [chain |-> Append(SubSeq(chain, 1, Len(chain) - 1), BlockRow(chain, block)),
          conf |-> conf \cup ConfirmedRows(chain, block)]

\* The chain and the confirmed store after addBlockToBlockchain(block).
addBlockToBlockchain(chain, conf, block) ==
    IF addBlockFails(chain, conf, block)
    THEN [chain |-> chain, conf |-> conf]
    ELSE [chain |-> Append(chain, BlockRow(chain, block)),
          conf |-> conf \cup ConfirmedRows(chain, block)]

\* The transaction createTransaction builds from the request's data:
\* supplied values are used as they are, missing ones are generated.
FinalTransaction(n, data, uuid, date) ==
    LET finalTransactionId == IF Falsy(data.transactionId) THEN uuid ELSE data.transactionId
        finalTimestamp == IF Falsy(data.timestamp) THEN date ELSE data.timestamp
        finalProjId == IF data.projId # Undefined THEN data.projId ELSE n
        rawDataForHash == IF Falsy(data.rawDataJson)
                          THEN JsonObject("submitterId", data.submitterId,
                                          "stationID", data.stationID)
                          ELSE data.rawDataJson
        finalRowHash == IF Falsy(data.rowHash)
                        THEN RowHash(finalTransactionId, finalTimestamp, rawDataForHash)
                        ELSE data.rowHash
    IN  Tx(finalTransactionId, finalTimestamp, finalProjId, data.submitterId,
           data.stationID, rawDataForHash, finalRowHash)

\* ----------------------------------------------------------------- startup
\* The genesis row initDb inserts on the Regulator.
GenesisRow(date) ==
    [id |-> 1, blockIndex |-> 0, timestamp |-> date, transactions |-> <<>>,
     nonce |-> 0, hash |-> sha256("regulator_genesis_block_v1"),
     previousBlockHash |-> "0", merkleRoot |-> sha256("genesis_merkle_root_v1")]

\* An initDb that creates the genesis block on any node.
GenesisEverywhere(n, chain, date) ==
    IF Len(chain) > 0 THEN chain ELSE <<GenesisRow(date)>>

\* Table bchain of node n after initDb.
initDb(n, chain, date) ==
    IF Len(chain) > 0 THEN chain
    ELSE IF n = RegAuth THEN <<GenesisRow(date)>>
    ELSE <<>>

\* The loop of startServer over the chain fetched from the Regulator: each
\* block is added and its transactions leave the mempool; the first
\* addBlockToBlockchain that rejects throws out of the loop.
RECURSIVE SyncLoop(_, _, _)
SyncLoop(db, fullChain, i) ==
    IF i > Len(fullChain) \/ addBlockFails(db.chain, db.conf, fullChain[i])
    THEN db
    ELSE LET added == addBlockToBlockchain(db.chain, db.conf, fullChain[i])
         IN  SyncLoop([chain |-> added.chain, conf |-> added.conf,
                       pool |-> removeTransactionsFromMempool(
                                    db.pool, TxIds(fullChain[i].transactions))],
                      fullChain, i + 1)

\* startServer, of a node that is down: initDb, then the initial chain synchronisation of a node that is not the Regulator and
\* has no block.  The Regulator answers GET /api/blocks/chain only while it
\* is running.  The peer addresses are in memory and start empty.
startServer(n) ==
    /\ ~up[n]
    /\ LET chain0 == initDb(n, bchain[n], toISOString(now))
           db0 == [chain |-> chain0, conf |-> confirmed[n], pool |-> mempool[n]]
           db1 == IF Len(chain0) = 0 /\ n # RegAuth /\ up[RegAuth]
                  THEN SyncLoop(db0, getAllBlocks(RegAuth), 1)
                  ELSE db0
       IN  /\ bchain' = [bchain EXCEPT ![n] = db1.chain]
           /\ confirmed' = [confirmed EXCEPT ![n] = db1.conf]
           /\ mempool' = [mempool EXCEPT ![n] = db1.pool]
    /\ up' = [up EXCEPT ![n] = TRUE]
    /\ networkNodes' = [networkNodes EXCEPT ![n] = <<>>]
    /\ last' = NoRequest
    /\ UNCHANGED <<txMsgs, blkMsgs, now, nextTx, posts, accepted, call>>

\* ------------------------------------------------------------ peer directory
\* The address of node n's server, and the address its routers are mounted
\* under.
Origin(n) == n
Api(n) == Origin(n) \o "/api"

\* The address a node is started with and announced under.  The broadcasts
\* of transactions and blocks post to `${url}/transactions/receive` and
\* `${url}/blocks/receive`, which a node answers only when url is the
\* address its routers are mounted under: the nodes are started with it.
myNodeUrl(n) == Api(n)

\* The running nodes whose handler of route answers a post to url.
Answering(url, route) == {m \in DOMAIN up : up[m] /\ url = Origin(m) \o "/api" \o route}

\* The array after an unconditional push.
Pushed(n, directory, nodeUrl) == Append(directory, nodeUrl)

\* The array after the test and push the three handlers share.
Registered(n, directory, nodeUrl) ==
    IF nodeUrl \notin Range(directory) /\ nodeUrl # myNodeUrl(n)
    THEN Append(directory, nodeUrl)
    ELSE directory

\* POST /api/network/register-node
registerNode(n, newNodeUrl) ==
    /\ up[n]
    /\ IF Falsy(newNodeUrl)
       THEN /\ last' = [Response("register-node", n, 400, "", NoBlock)
                           EXCEPT !.request = [newNodeUrl |-> newNodeUrl],
                                  !.error = "newNodeUrl is required."]
            /\ UNCHANGED networkNodes
       ELSE /\ networkNodes' = [networkNodes EXCEPT ![n] = Registered(n, @, newNodeUrl)]
            /\ last' = [Response("register-node", n, 200, "Node registered.", NoBlock)
                           EXCEPT !.request = [newNodeUrl |-> newNodeUrl]]
    /\ UNCHANGED <<up, bchain, mempool, confirmed, txMsgs, blkMsgs, now, nextTx, posts,
                   accepted, call>>

\* The forEach of register-nodes-bulk over allNetworkNodes from element i on.
RECURSIVE RegisteredFrom(_, _, _, _)
RegisteredFrom(n, directory, allNetworkNodes, i) ==
    IF i > Len(allNetworkNodes)
    THEN directory
    ELSE RegisteredFrom(n, Registered(n, directory, allNetworkNodes[i]), allNetworkNodes, i + 1)

RegisteredBulk(n, directory, allNetworkNodes) ==
    RegisteredFrom(n, directory, allNetworkNodes, 1)

\* POST /api/network/register-nodes-bulk, with the body of the request
registerNodesBulk(n, body) ==
    /\ up[n]
    /\ IF "allNetworkNodes" \notin DOMAIN body
       THEN /\ last' = [Response("register-nodes-bulk", n, 400, "", NoBlock)
                           EXCEPT !.request = body,
                                  !.error = "allNetworkNodes must be an array."]
            /\ UNCHANGED networkNodes
       ELSE /\ networkNodes' = [networkNodes EXCEPT
                                   ![n] = RegisteredBulk(n, @, body.allNetworkNodes)]
            /\ last' = [Response("register-nodes-bulk", n, 200,
                               "Bulk registration successful.", NoBlock)
                           EXCEPT !.request = body]
    /\ UNCHANGED <<up, bchain, mempool, confirmed, txMsgs, blkMsgs, now, nextTx, posts,
                   accepted, call>>

\* The address the relay of a new node posts to for an existing node.
RelayUrl(existingNodeUrl) == existingNodeUrl \o "/api/network/register-node"

\* POST /api/network/register-and-broadcast-node.  The relays and the bulk
\* registration are awaited: the handlers of the nodes they reach run
\* within it.  A relay that fails is logged; when the bulk registration
\* fails the handler answers 500.
registerAndBroadcastNode(n, newNodeUrl) ==
    /\ up[n]
    /\ IF Falsy(newNodeUrl)
       THEN /\ last' = [Response("register-and-broadcast-node", n, 400, "", NoBlock)
                           EXCEPT !.request = [newNodeUrl |-> newNodeUrl],
                                  !.error = "newNodeUrl is required."]
            /\ UNCHANGED networkNodes
       ELSE LET mine == Registered(n, networkNodes[n], newNodeUrl)
                pushed == [networkNodes EXCEPT ![n] = mine]
                relayed == {m \in DOMAIN up :
                              \E existingNodeUrl \in Range(mine) \ {newNodeUrl} :
                                  m \in Answering(RelayUrl(existingNodeUrl),
                                                  "/network/register-node")}
                told == [m \in DOMAIN networkNodes |->
                            IF m \in relayed THEN Registered(m, pushed[m], newNodeUrl)
                            ELSE pushed[m]]
                allNetworkNodes == Append(told[n], myNodeUrl(n))
                joining == Answering(newNodeUrl \o "/network/register-nodes-bulk",
                                     "/network/register-nodes-bulk")
            IN  /\ networkNodes' = [m \in DOMAIN networkNodes |->
                       IF m \in joining THEN RegisteredBulk(m, told[m], allNetworkNodes)
                       ELSE told[m]]
                /\ last' = IF joining # {}
                           THEN [Response("register-and-broadcast-node", n, 200,
                                     "New node registered with network and broadcasted.",
                                     NoBlock)
                                    EXCEPT !.request = [newNodeUrl |-> newNodeUrl]]
                           ELSE [Response("register-and-broadcast-node", n, 500, "", NoBlock)
                                    EXCEPT !.request = [newNodeUrl |-> newNodeUrl],
                                           !.error = "Failed to register and broadcast node."]
    /\ UNCHANGED <<up, bchain, mempool, confirmed, txMsgs, blkMsgs, now, nextTx, posts,
                   accepted, call>>

\* The peers of n whose server answers a broadcast request.
Reached(n) ==
    {m \in Nodes : \E url \in Range(networkNodes[n]) :
                      m \in Answering(url \o "/blocks/receive", "/blocks/receive")}

\* --------------------------------------------------- transaction admission
uuidv4(k) == "t" \o ToString(k)

\* The bodies clients post to /api/transactions/submit: the measurement
\* fields, and optionally a rowHash of the client's own, or the
\* transactionId of the first transaction (once a node has returned it).
Payloads ==
    {Tx(supplied[1], Undefined, Undefined, "s1", "st1", Undefined, supplied[2]) :
        supplied \in {<<Undefined, Undefined>>, <<Undefined, "beef">>,
                      <<uuidv4(1), Undefined>>}}

UniqueTransactionId ==
    "SQLITE_CONSTRAINT: UNIQUE constraint failed: mempool_transactions.transaction_id"

\* The error of createTransaction's INSERT INTO mempool_transactions ("": none).
MempoolInsertError(pool, tx) ==
    IF \E t \in pool : t.transactionId = tx.transactionId
    THEN UniqueTransactionId
    ELSE IF tx.submitterId = Undefined
    THEN "SQLITE_CONSTRAINT: NOT NULL constraint failed: mempool_transactions.submitter_id"
    ELSE ""

\* Check 1 without the test of projId.
ProjIdNotRequired(transactionData) ==
    \/ Falsy(transactionData.transactionId) \/ Falsy(transactionData.timestamp)
    \/ Falsy(transactionData.rowHash) \/ Falsy(transactionData.rawDataJson)

\* Check 1 of /transactions/receive.
MissingTransactionFields(transactionData) ==
    \/ Falsy(transactionData.transactionId) \/ Falsy(transactionData.timestamp)
    \/ Falsy(transactionData.rowHash) \/ Falsy(transactionData.rawDataJson)
    \/ transactionData.projId = Undefined

\* Check 2 of /transactions/receive.
TransactionHashMismatch(transactionData) ==
    RowHash(transactionData.transactionId, transactionData.timestamp,
            transactionData.rawDataJson) # transactionData.rowHash

\* POST /api/transactions/receive on node n: the response, and the mempool
\* of n afterwards.
receiveTransaction(n, transactionData) ==
    IF MissingTransactionFields(transactionData)
    THEN [status |-> 400, note |-> "Missing mandatory transaction fields for reception.",
          pool |-> mempool[n]]
    ELSE IF TransactionHashMismatch(transactionData)
    THEN [status |-> 400, note |-> "Transaction hash mismatch. Data may be corrupted.",
          pool |-> mempool[n]]
    ELSE LET tx == FinalTransaction(n, transactionData, "", "")
             err == MempoolInsertError(mempool[n], tx)
         IN  IF err = ""
             THEN [status |-> 201, note |-> "Transaction received and accepted into mempool.",
                   pool |-> mempool[n] \cup {tx}]
             ELSE IF err = UniqueTransactionId
             THEN [status |-> 409, note |-> "Transaction ID already exists in mempool.",
                   pool |-> mempool[n]]
             ELSE [status |-> 500, note |-> "Failed to accept received transaction.",
                   pool |-> mempool[n]]

\* POST /api/transactions/submit on node n.  The handler awaits the posts
\* to the peers of networkNodes, so their /receive handlers run within it;
\* a peer that is down or answers an error makes the response a 500, after
\* the transaction is stored locally and on the peers that took it.  last.tx
\* is the transaction createTransaction built, last.error the message of
\* the error caught.
submit(n, rawTransactionData) ==
    /\ up[n]
    /\ nextTx < MaxTx
    /\ rawTransactionData.rowHash # Undefined
        => Cardinality({t \in txMsgs : t.rowHash = rawTransactionData.rowHash}) < MaxSupplied
    /\ rawTransactionData.transactionId # Undefined
        => Cardinality({t \in txMsgs : t.transactionId = rawTransactionData.transactionId})
              \in 1..MaxSupplied
    /\ nextTx' = IF Falsy(rawTransactionData.transactionId) THEN nextTx + 1 ELSE nextTx
    /\ LET newTransaction == FinalTransaction(n, rawTransactionData,
                                              uuidv4(nextTx + 1), toISOString(now + 1))
           err == MempoolInsertError(mempool[n], newTransaction)
           delivered == \A url \in Range(networkNodes[n]) :
                            \E m \in Reached(n) :
                                /\ url = Api(m)
                                /\ receiveTransaction(m, newTransaction).status = 201
       IN  IF err # ""
           THEN /\ UNCHANGED <<mempool, txMsgs, now>>
                /\ last' = [Response("submit", n, 500, "Transaction broadcast failed.", NoBlock)
                               EXCEPT !.tx = newTransaction, !.error = err]
           ELSE /\ mempool' = [m \in Nodes |->
                       IF m = n THEN mempool[n] \cup {newTransaction}
                       ELSE IF m \in Reached(n) THEN receiveTransaction(m, newTransaction).pool
                       ELSE mempool[m]]
                /\ txMsgs' = txMsgs \cup {newTransaction}
                /\ now' = now + 1
                /\ last' = IF delivered
                           THEN [Response("submit", n, 201,
                                     "Transaction created locally and broadcast successfully.",
                                     NoBlock)
                                    EXCEPT !.tx = newTransaction]
                           ELSE [Response("submit", n, 500, "Transaction broadcast failed.",
                                     NoBlock)
                                    EXCEPT !.tx = newTransaction, !.error = "axios: request failed"]
    /\ UNCHANGED <<up, bchain, confirmed, blkMsgs, networkNodes, posts, accepted, call>>

\* The transactions a peer posts to /api/transactions/receive on its own:
\* the first transaction broadcast, again, intact, with the payload
\* altered, or with one of the mandatory properties left out.
TxRequests ==
    LET again == {t \in txMsgs : t.transactionId = uuidv4(1)}
    IN  again
        \cup {[t EXCEPT !.rawDataJson = "{forged}"] : t \in again}
        \cup {[t EXCEPT ![f] = Undefined] :
                 t \in again,
                 f \in {"transactionId", "timestamp", "rowHash", "rawDataJson", "projId"}}

\* A peer posts transactionData to /api/transactions/receive of node n.
postTransaction(n, transactionData) ==
    /\ up[n]
    /\ posts' = posts + 1
    /\ LET r == receiveTransaction(n, transactionData)
       IN  /\ mempool' = [mempool EXCEPT ![n] = r.pool]
           /\ last' = [Response("receiveTransaction", n, r.status, r.note, NoBlock)
                          EXCEPT !.tx = transactionData]
    /\ UNCHANGED <<up, bchain, confirmed, txMsgs, blkMsgs, networkNodes, now, nextTx,
                   accepted, call>>

\* --------------------------------------------------------- block reception
\* The notes /blocks/receive answers with.
MalformedBlock == "Received block is missing required fields."
IgnoredBlock == "Block already on chain or older, ignoring."
NonSequentialIndex == "Block index is not sequential. Rejecting."
LinkageMismatch ==
    "Received block does not link correctly to our chain (previous hash mismatch)."
HashMismatch == "Block hash mismatch, block rejected."
MerkleMismatch == "Merkle Root mismatch, block rejected."
StorageFailure == "Failed to process received block."
BlockAccepted == "Block received and accepted."

\* Check 1 of /blocks/receive: a required property is missing or falsy.
MissingRequiredFields(b) ==
    \/ "blockIndex" \in b.absent
    \/ Falsy(b.timestamp)
    \/ "transactions" \in b.absent
    \/ Falsy(b.merkleRoot)
    \/ Falsy(b.previousBlockHash)
    \/ Falsy(b.hash)

\* Check 2a with < for <=, and check 2a left out.
OlderOnly(n, b) == b.blockIndex < lastBlockIndex(n)

NeverOnChain(n, b) == FALSE

\* Check 2a of /blocks/receive.
AlreadyOnChain(n, b) == b.blockIndex <= lastBlockIndex(n)

\* Check 2b letting a gap through.
GapAllowed(n, b) == b.blockIndex < lastBlockIndex(n) + 1

\* Check 2b of /blocks/receive.
NotSequential(n, b) == b.blockIndex # lastBlockIndex(n) + 1

\* Check 3 left out, and check 3 inverted.
AnyPreviousHash(n, b) == FALSE

InvertedPreviousHash(n, b) == b.previousBlockHash = lastBlockHash(n)

\* Check 3 of /blocks/receive.
PreviousHashMismatch(n, b) == b.previousBlockHash # lastBlockHash(n)

\* Check 4 left out.
AnyBlockHash(b) == FALSE

\* Check 4 of /blocks/receive.
BlockHashMismatch(b) == BlockHash(b) # b.hash

\* Check 5 of /blocks/receive.
MerkleRootMismatch(b) == calculateMerkleRoot(b.transactions) # b.merkleRoot

\* The ledger of node n, unchanged.
Ledger(n) == [chain |-> bchain[n], conf |-> confirmed[n], pool |-> mempool[n]]

\* A commit that stores nothing.
NothingCommitted(n, b) == [chain |-> bchain[n], conf |-> confirmed[n], pool |-> mempool[n]]

\* Steps 7 and 8 of /blocks/receive: the ledger of n after
\* addBlockToBlockchain and removeTransactionsFromMempool.
AcceptBlock(n, b) ==
    LET added == addBlockToBlockchain(bchain[n], confirmed[n], b)
    IN  [chain |-> added.chain, conf |-> added.conf,
         pool |-> removeTransactionsFromMempool(mempool[n], TxIds(b.transactions))]

Reply(status, note, db) == [status |-> status, note |-> note, db |-> db]

\* POST /api/blocks/receive on node n, for a body that has a newBlock: the
\* response, and the ledger of n afterwards.
receiveBlock(n, newBlock) ==
    IF MissingRequiredFields(newBlock)
    THEN Reply(400, MalformedBlock, Ledger(n))
    ELSE IF AlreadyOnChain(n, newBlock)
    THEN Reply(200, IgnoredBlock, Ledger(n))
    ELSE IF NotSequential(n, newBlock)
    THEN Reply(400, NonSequentialIndex, Ledger(n))
    ELSE IF PreviousHashMismatch(n, newBlock)
    THEN Reply(400, LinkageMismatch, Ledger(n))
    ELSE IF ~newBlock.txsIsArray
    THEN Reply(500, StorageFailure, Ledger(n))
    ELSE IF BlockHashMismatch(newBlock)
    THEN Reply(400, HashMismatch, Ledger(n))
    ELSE IF MerkleRootMismatch(newBlock)
    THEN Reply(400, MerkleMismatch, Ledger(n))
    ELSE IF addBlockFails(bchain[n], confirmed[n], newBlock)
    THEN Reply(500, StorageFailure, Ledger(n))
    ELSE Reply(200, BlockAccepted, AcceptBlock(n, newBlock))

\* ------------------------------------------------------------------ mining
\* The dates the clock prints, "T0" .. "T9", which compare as strings the
\* way their numbers do.
Dates == [i \in 0..9 |-> toISOString(i)]

DateValue(timestamp) == CHOOSE i \in DOMAIN Dates : Dates[i] = timestamp

\* The query with ORDER BY timestamp DESC.
RECURSIVE NewestFirst(_, _)
NewestFirst(pool, limit) ==
    IF limit = 0 \/ pool = {} THEN {<<>>}
    ELSE LET newest == {t \in pool : \A u \in pool :
                           DateValue(t.timestamp) >= DateValue(u.timestamp)}
         IN  UNION {{<<t>> \o rest : rest \in NewestFirst(pool \ {t}, limit - 1)} :
                    t \in newest}

\* SELECT * FROM mempool_transactions ORDER BY timestamp ASC LIMIT ?: the
\* results the query may give.  Rows of equal timestamp come in an order
\* SQL leaves open.
RECURSIVE getTransactionsForBlock(_, _)
getTransactionsForBlock(pool, limit) ==
    IF limit = 0 \/ pool = {} THEN {<<>>}
    ELSE LET oldest == {t \in pool : \A u \in pool :
                           DateValue(t.timestamp) <= DateValue(u.timestamp)}
         IN  UNION {{<<t>> \o rest : rest \in getTransactionsForBlock(pool \ {t}, limit - 1)} :
                    t \in oldest}

\* A block that always takes the previousBlockHash of a first block.
UnlinkedBlock(n, pendingTransactions, date) ==
    LET unhashed == Block(lastBlockIndex(n) + 1, date, pendingTransactions,
                          calculateMerkleRoot(pendingTransactions), "0", 0, "")
    IN  [unhashed EXCEPT !.hash = BlockHash(unhashed)]

\* The block mineBlockInternal builds on the last block of node n.
NewBlock(n, pendingTransactions, date) ==
    CHOOSE hashed \in
        {[unhashed EXCEPT !.hash = BlockHash(unhashed)] :
            unhashed \in {Block(lastBlockIndex(n) + 1, date, pendingTransactions,
                                calculateMerkleRoot(pendingTransactions),
                                lastBlockHash(n), 0, "")}} : TRUE

\* mineBlockInternal on node n, called by op (the route /mine or the
\* timer).  It awaits the posts of the new block to the peers of
\* networkNodes, so their /receive handlers run within it; a peer that is
\* down or answers an error makes it throw, after the local commit.
mineBlockInternal(op, n) ==
    /\ up[n]
    /\ IF getMempoolCount(n) < BLOCK_SIZE
       THEN /\ last' = Response(op, n, 200, "Not mining yet.", NoBlock)
            /\ UNCHANGED <<bchain, confirmed, mempool, blkMsgs, accepted>>
       ELSE \E pendingTransactions \in getTransactionsForBlock(mempool[n], BLOCK_SIZE) :
           \E newBlock \in {NewBlock(n, pendingTransactions, toISOString(now))} :
               LET delivered == \A url \in Range(networkNodes[n]) :
                                    \E m \in Reached(n) :
                                        /\ url = Api(m)
                                        /\ receiveBlock(m, newBlock).status = 200
                   after(m) == IF m = n THEN AcceptBlock(n, newBlock)
                               ELSE IF m \in Reached(n) THEN receiveBlock(m, newBlock).db
                               ELSE Ledger(m)
               IN  IF addBlockFails(bchain[n], confirmed[n], newBlock)
                   THEN /\ last' = Response(op, n, 500, "Failed to mine block.", NoBlock)
                        /\ UNCHANGED <<bchain, confirmed, mempool, blkMsgs, accepted>>
                   ELSE /\ \A m \in Nodes : Len(after(m).chain) <= MaxChain
                        /\ bchain' = [m \in Nodes |-> after(m).chain]
                        /\ confirmed' = [m \in Nodes |-> after(m).conf]
                        /\ mempool' = [m \in Nodes |-> after(m).pool]
                        /\ blkMsgs' = blkMsgs \cup {newBlock}
                        /\ accepted' = [m \in Nodes |->
                               IF m # n /\ after(m).chain # bchain[m]
                               THEN accepted[m] \cup {newBlock} ELSE accepted[m]]
                        /\ last' = IF delivered
                                   THEN Response(op, n, 200,
                                            "Block mined and broadcast successfully.", newBlock)
                                   ELSE Response(op, n, 500, "Failed to mine block.", newBlock)
    /\ UNCHANGED <<up, txMsgs, networkNodes, now, nextTx, posts, call>>

\* --------------------------------------------------------- requests of peers
\* A block with its merkle root and header hash computed, as any peer can
\* build one.
SealedBlock(blockIndex, date, transactions, previousBlockHash) ==
    LET unhashed == Block(blockIndex, date, transactions,
                          calculateMerkleRoot(transactions), previousBlockHash, 0, "")
    IN  [unhashed EXCEPT !.hash = BlockHash(unhashed)]

\* The blocks a peer seals itself on the tip of node n: an empty one, and
\* one for the transactions of each block broadcast.
TipBlocks(n) ==
    {SealedBlock(lastBlockIndex(n) + 1, toISOString(0), txs, lastBlockHash(n)) :
        txs \in {<<>>} \cup {b.transactions : b \in blkMsgs}}

\* The well-formed blocks a peer may post to node n on its own: the blocks
\* broadcast, the block of the last request again, the blocks sealed on
\* n's tip, a block past the tip and a block linked to another block.
BaseBlocks(n) ==
    blkMsgs
    \cup {b \in {last.block} : "newBlock" \notin b.absent}
    \cup TipBlocks(n)
    \cup {SealedBlock(lastBlockIndex(n) + 2, toISOString(0), <<>>, lastBlockHash(n)),
          SealedBlock(lastBlockIndex(n) + 1, toISOString(0), <<>>, sha256("other"))}

\* A block as GET /chain lists it: its transactions have a transactionId
\* and a rowHash only.
Lightweight(b) ==
    [b EXCEPT !.transactions =
        [i \in 1..Len(b.transactions) |->
            Tx(b.transactions[i].transactionId, Undefined, Undefined, Undefined,
               Undefined, Undefined, b.transactions[i].rowHash)]]

\* The blocks broadcast and the blocks sealed on n's tip, damaged or
\* incomplete: a wrong hash, a wrong merkle root (under a matching hash), a
\* missing merkle root, blockIndex or nonce, transactions that are no
\* array, lightweight transactions.
DamagedBlocks(n) ==
    UNION {{[b EXCEPT !.hash = sha256("other")],
            LET m == [b EXCEPT !.merkleRoot = sha256("other")] IN [m EXCEPT !.hash = BlockHash(m)],
            [b EXCEPT !.merkleRoot = Undefined],
            [b EXCEPT !.absent = {"blockIndex"}],
            LET m == [b EXCEPT !.absent = {"nonce"}] IN [m EXCEPT !.hash = BlockHash(m)],
            [b EXCEPT !.txsIsArray = FALSE],
            Lightweight(b)} :
           b \in blkMsgs \cup TipBlocks(n)}

BlockRequests(n) == BaseBlocks(n) \cup DamagedBlocks(n) \cup {NoBlock}

\* What becomes of a handler's rejected promise: Express 5 passes it to its
\* error handler, which answers 500; under Express 4 nothing handles it, no
\* response is sent, and Node goes on or terminates the process.
UnhandledOutcomes == {"error handler", "no response", "terminated"}

\* A peer posts a body to /api/blocks/receive of node n.  Without a
\* newBlock, newBlock.blockIndex of line 118 throws outside the try and the
\* promise of the handler is rejected.
postBlock(n, newBlock) ==
    /\ up[n]
    /\ posts' = posts + 1
    /\ IF "newBlock" \in newBlock.absent
       THEN /\ \E outcome \in UnhandledOutcomes :
                  /\ last' = Response("receiveBlock", n,
                                 IF outcome = "error handler" THEN 500 ELSE 0,
                                 "TypeError outside try: " \o outcome, NoBlock)
                  /\ up' = [up EXCEPT ![n] = outcome # "terminated"]
            /\ UNCHANGED <<bchain, confirmed, mempool, accepted>>
       ELSE LET r == receiveBlock(n, newBlock)
            IN  /\ Len(r.db.chain) <= MaxChain
                /\ bchain' = [bchain EXCEPT ![n] = r.db.chain]
                /\ confirmed' = [confirmed EXCEPT ![n] = r.db.conf]
                /\ mempool' = [mempool EXCEPT ![n] = r.db.pool]
                /\ last' = [Response("receiveBlock", n, r.status, r.note,
                                   IF r.db.chain # bchain[n] THEN newBlock ELSE NoBlock)
                              EXCEPT !.request = newBlock]
                /\ accepted' = [accepted EXCEPT ![n] =
                       IF r.db.chain # bchain[n] THEN @ \cup {newBlock} ELSE @]
                /\ UNCHANGED up
    /\ UNCHANGED <<txMsgs, blkMsgs, networkNodes, now, nextTx, call>>

\* ----------------------------------------------------------- specification
Init ==
    /\ up = [n \in Nodes |-> FALSE]
    /\ bchain = [n \in Nodes |-> <<>>]
    /\ mempool = [n \in Nodes |-> {}]
    /\ confirmed = [n \in Nodes |-> {}]
    /\ txMsgs = {}
    /\ blkMsgs = {}
    /\ networkNodes = [n \in Nodes |-> <<>>]
    /\ now = 0
    /\ nextTx = 0
    /\ posts = 0
    /\ accepted = [n \in Nodes |-> {}]
    /\ call = NoCall
    /\ last = NoRequest

Start == \E n \in Nodes : startServer(n)

RegisterNode == \E n \in Nodes, m \in Nodes : registerNode(n, myNodeUrl(m))

Submit == \E n \in Projects, p \in Payloads : submit(n, p)

ReceiveTransaction ==
    /\ posts < MaxPosts
    /\ \E n \in Nodes : \E t \in TxRequests : postTransaction(n, t)

\* POST /api/blocks/mine, on any node
Mine == \E n \in Nodes : mineBlockInternal("mine", n)

\* A tick of the interval timer of index.js, on the Regulator only: below
\* the threshold nothing is called.
MineTimer ==
    /\ up[RegAuth]
    /\ IF getMempoolCount(RegAuth) >= MINE_THRESHOLD
       THEN mineBlockInternal("timer", RegAuth)
       ELSE /\ last' = Response("timer", RegAuth, 0, "", NoBlock)
            /\ UNCHANGED <<up, bchain, mempool, confirmed, txMsgs, blkMsgs, networkNodes,
                           now, nextTx, posts, accepted, call>>

ReceiveBlock ==
    /\ posts < MaxPosts
    /\ \E n \in Nodes : \E b \in BlockRequests(n) : postBlock(n, b)

Next ==
    \/ Start
    \/ RegisterNode
    \/ Submit
    \/ ReceiveTransaction
    \/ Mine
    \/ MineTimer
    \/ ReceiveBlock

Spec == Init /\ [][Next]_vars

\* ------------------------------------------- the commit, statement by statement
\* In Spec a handler is one step.  CommitSpec follows one node through the
\* statements of its commits instead: BEGIN TRANSACTION and the INSERT INTO
\* bchain, the INSERTs INTO confirmed_transactions, COMMIT, and then, in the
\* caller, the DELETE FROM mempool_transactions.  Any statement may fail in
\* the storage (disk full, I/O error, database locked), and the process may
\* stop between two statements.

\* The k-th transaction a project node broadcast, as the mempool holds it.
BroadcastTx(k) ==
    FinalTransaction("1", Tx(Undefined, Undefined, Undefined, "s1", "st1", Undefined, Undefined),
                     uuidv4(k), toISOString(k))

\* A transaction submitted to the Regulator itself in the same millisecond
\* as the k-th transaction of the project node.
OwnTx(k) ==
    FinalTransaction(RegAuth, Tx(Undefined, Undefined, Undefined, "s0", "st0", Undefined, Undefined),
                     uuidv4(0), toISOString(k))

\* The Regulator is up on its genesis block, with the first k transactions
\* broadcast in its mempool, and possibly one of its own.
CommitInit ==
    /\ up = [n \in Nodes |-> n = RegAuth]
    /\ bchain = [n \in Nodes |-> IF n = RegAuth THEN <<GenesisRow(toISOString(0))>> ELSE <<>>]
    /\ \E k \in 0..(MaxTx + 1), own \in BOOLEAN :
          /\ mempool = [n \in Nodes |->
                IF n = RegAuth
                THEN {BroadcastTx(i) : i \in 1..k} \cup (IF own /\ k > 0 THEN {OwnTx(k)} ELSE {})
                ELSE {}]
          /\ txMsgs = {BroadcastTx(i) : i \in 1..k}
          /\ now = k
          /\ nextTx = k
    /\ confirmed = [n \in Nodes |-> {}]
    /\ blkMsgs = {}
    /\ networkNodes = [n \in Nodes |-> <<>>]
    /\ posts = 0
    /\ accepted = [n \in Nodes |-> {}]
    /\ call = NoCall
    /\ last = NoRequest

\* Checks 1 to 5 of /blocks/receive let newBlock through to the commit.
ReachesCommit(n, newBlock) ==
    /\ "newBlock" \notin newBlock.absent
    /\ ~MissingRequiredFields(newBlock)
    /\ ~AlreadyOnChain(n, newBlock)
    /\ ~NotSequential(n, newBlock)
    /\ ~PreviousHashMismatch(n, newBlock)
    /\ newBlock.txsIsArray
    /\ ~BlockHashMismatch(newBlock)
    /\ ~MerkleRootMismatch(newBlock)

\* The blocks a caller hands to addBlockToBlockchain on node n: the block
\* mineBlockInternal builds, or a block posted to /blocks/receive.
BlocksToCommit(op, n) ==
    IF op = "mine"
    THEN IF getMempoolCount(n) < BLOCK_SIZE THEN {}
         ELSE {NewBlock(n, pendingTransactions, toISOString(now)) :
                  pendingTransactions \in getTransactionsForBlock(mempool[n], BLOCK_SIZE)}
    ELSE {b \in BlockRequests(n) : ReachesCommit(n, b)}

\* The storage refuses a statement, or does not.
StorageFaults == BOOLEAN

\* The call is at statement pc.
At(pc) == call.pc = pc

\* The statements are rolled back and the promise is rejected; the caller
\* answers 500 (or throws) without pruning.
Rollback == [call EXCEPT !.pc = "rejected", !.chain = call.before.chain,
                         !.conf = call.before.conf]

\* A caller reaches addBlockToBlockchain(block): BEGIN TRANSACTION.
beginTransaction(op, n, block) ==
    /\ At("none")
    /\ up[n]
    /\ Len(bchain[n]) < MaxChain
    /\ call' = [pc |-> "insertBlock", op |-> op, node |-> n, block |-> block,
                before |-> Ledger(n), chain |-> bchain[n], conf |-> confirmed[n]]
    /\ UNCHANGED <<up, bchain, mempool, confirmed, txMsgs, blkMsgs, networkNodes, now,
                   nextTx, posts, accepted, last>>

\* INSERT INTO bchain, inside the transaction.
insertBlock(fault) ==
    /\ At("insertBlock")
    /\ call' = IF fault \/ BlockInsertFails(call.chain, call.block)
               THEN Rollback
               ELSE [call EXCEPT !.pc = "insertTransactions",
                                 !.chain = Append(call.chain, BlockRow(call.chain, call.block))]
    /\ UNCHANGED <<up, bchain, mempool, confirmed, txMsgs, blkMsgs, networkNodes, now,
                   nextTx, posts, accepted, last>>

\* The INSERTs INTO confirmed_transactions, inside the transaction.
insertTransactions(fault) ==
    /\ At("insertTransactions")
    /\ call' = IF fault \/ ConfirmedInsertFails(call.conf, call.block)
               THEN Rollback
               ELSE [call EXCEPT !.pc = "commit",
                        !.conf = call.conf \cup ConfirmedRows(call.before.chain, call.block)]
    /\ UNCHANGED <<up, bchain, mempool, confirmed, txMsgs, blkMsgs, networkNodes, now,
                   nextTx, posts, accepted, last>>

\* COMMIT: the header and the confirmed rows become durable together.
commit(fault) ==
    /\ At("commit")
    /\ IF fault
       THEN /\ call' = Rollback
            /\ UNCHANGED <<bchain, confirmed>>
       ELSE /\ call' = [call EXCEPT !.pc = "prune"]
            /\ bchain' = [bchain EXCEPT ![call.node] = call.chain]
            /\ confirmed' = [confirmed EXCEPT ![call.node] = call.conf]
    /\ UNCHANGED <<up, mempool, txMsgs, blkMsgs, networkNodes, now, nextTx, posts,
                   accepted, last>>

\* Back in the caller, after addBlockToBlockchain has resolved:
\* removeTransactionsFromMempool, a DELETE of its own, outside the
\* transaction.  When it fails the caller answers 500 (or throws).
prune(fault) ==
    /\ At("prune")
    /\ IF fault
       THEN /\ call' = [call EXCEPT !.pc = "failed"]
            /\ UNCHANGED <<mempool, blkMsgs>>
       ELSE /\ call' = [call EXCEPT !.pc = "done"]
            /\ mempool' = [mempool EXCEPT ![call.node] =
                   removeTransactionsFromMempool(@, TxIds(call.block.transactions))]
            /\ blkMsgs' = IF call.op = "mine" THEN blkMsgs \cup {call.block} ELSE blkMsgs
    /\ UNCHANGED <<up, bchain, confirmed, txMsgs, networkNodes, now, nextTx, posts,
                   accepted, last>>

\* The process stops between two statements: what is not committed is lost,
\* what is committed stays.
terminate ==
    /\ call.pc \in {"insertBlock", "insertTransactions", "commit", "prune"}
    /\ call' = [call EXCEPT !.pc = "terminated", !.chain = bchain[call.node],
                            !.conf = confirmed[call.node]]
    /\ up' = [up EXCEPT ![call.node] = FALSE]
    /\ UNCHANGED <<bchain, mempool, confirmed, txMsgs, blkMsgs, networkNodes, now,
                   nextTx, posts, accepted, last>>

\* The caller has answered; the node takes the next request.
return ==
    /\ call.pc \in {"done", "rejected", "failed"}
    /\ call' = NoCall
    /\ UNCHANGED <<up, bchain, mempool, confirmed, txMsgs, blkMsgs, networkNodes, now,
                   nextTx, posts, accepted, last>>

BeginTransaction ==
    \E op \in {"mine", "receiveBlock"} : \E b \in BlocksToCommit(op, RegAuth) :
        beginTransaction(op, RegAuth, b)

InsertBlock == \E fault \in StorageFaults : insertBlock(fault)

InsertTransactions == \E fault \in StorageFaults : insertTransactions(fault)

Commit == \E fault \in StorageFaults : commit(fault)

Prune == \E fault \in StorageFaults : prune(fault)

CommitNext ==
    \/ BeginTransaction
    \/ InsertBlock
    \/ InsertTransactions
    \/ Commit
    \/ Prune
    \/ terminate
    \/ return

CommitSpec == CommitInit /\ [][CommitNext]_vars

\* ------------------------------------------- the peer directory of three nodes
\* The requests of routes/network.js among three running nodes.
Network == {"0", "1", "2"}

\* The addresses the requests name: the address of each node, the address
\* of the server of one, and none.
NodeUrls == {myNodeUrl(m) : m \in Network} \cup {Origin("1")}

MaxList == 2
MaxPeers == 2

\* No directory grows beyond MaxPeers addresses in this step.
WithinMaxPeers == \A n \in Network : Len(networkNodes'[n]) <= MaxPeers

\* The bodies posted to register-nodes-bulk: with an array of addresses,
\* and without one.
BulkRequests ==
    {[allNetworkNodes |-> list] : list \in UNION {[1..k -> NodeUrls] : k \in 0..MaxList}}
        \cup {[newNodeUrl |-> myNodeUrl("0")]}

NetworkInit ==
    /\ up = [n \in Network |-> TRUE]
    /\ networkNodes = [n \in Network |-> <<>>]
    /\ bchain = [n \in Network |-> <<>>]
    /\ mempool = [n \in Network |-> {}]
    /\ confirmed = [n \in Network |-> {}]
    /\ accepted = [n \in Network |-> {}]
    /\ txMsgs = {}
    /\ blkMsgs = {}
    /\ now = 0
    /\ nextTx = 0
    /\ posts = 0
    /\ call = NoCall
    /\ last = NoRequest

AnnounceSelf ==
    /\ \E n \in Network, newNodeUrl \in NodeUrls \cup {Undefined} :
          registerAndBroadcastNode(n, newNodeUrl)
    /\ WithinMaxPeers

RegisterNodeUrl ==
    /\ \E n \in Network, newNodeUrl \in NodeUrls \cup {Undefined} :
          registerNode(n, newNodeUrl)
    /\ WithinMaxPeers

RegisterNodesBulk ==
    /\ \E n \in Network, body \in BulkRequests : registerNodesBulk(n, body)
    /\ WithinMaxPeers

NetworkNext ==
    \/ AnnounceSelf
    \/ RegisterNodeUrl
    \/ RegisterNodesBulk

NetworkSpec == NetworkInit /\ [][NetworkNext]_vars

\* ------------------------------------------------- the Merkle root of a list
\* calculateMerkleRoot applied to the transaction lists of up to MaxLeaves
\* transactions over three row hashes.
MaxLeaves == 5

RowHashes == {"a", "b", "c"}

TransactionLists ==
    UNION {[1..k -> {[rowHash |-> h] : h \in RowHashes}] : k \in 0..MaxLeaves}

MerkleInit ==
    /\ \E transactions \in TransactionLists :
          last = [Response("transactions", RegAuth, 0, "", NoBlock)
                     EXCEPT !.request = [transactions |-> transactions]]
    /\ up = [n \in Nodes |-> FALSE]
    /\ bchain = [n \in Nodes |-> <<>>]
    /\ mempool = [n \in Nodes |-> {}]
    /\ confirmed = [n \in Nodes |-> {}]
    /\ txMsgs = {}
    /\ blkMsgs = {}
    /\ networkNodes = [n \in Nodes |-> <<>>]
    /\ now = 0
    /\ nextTx = 0
    /\ posts = 0
    /\ accepted = [n \in Nodes |-> {}]
    /\ call = NoCall

\* The call: the root is in the note, and the list is the caller's array
\* after the call (the loop pushes to the array map returned).
CalculateMerkleRoot ==
    /\ last.op = "transactions"
    /\ last' = [last EXCEPT !.op = "calculateMerkleRoot",
                            !.note = calculateMerkleRoot(last.request.transactions)]
    /\ UNCHANGED <<up, bchain, mempool, confirmed, txMsgs, blkMsgs, networkNodes, now,
                   nextTx, posts, accepted, call>>

MerkleNext == CalculateMerkleRoot

MerkleSpec == MerkleInit /\ [][MerkleNext]_vars

\* ------------------------------------- two callers on the connection of a node
\* A node has one sqlite connection (the module variable db).  ConnectionSpec
\* follows two calls of mineBlockInternal on the Regulator, the tick of the
\* timer and a request to /mine, and a transaction posted to
\* /transactions/receive, statement by statement: each handler suspends at
\* its awaits and the statements of the others run in between, on the same
\* connection.  Here call holds the state of the connection (whether BEGIN
\* has opened a transaction, whose, the tables as the connection sees them
\* and the callers that wrote since BEGIN) and the position of each caller.
Callers == {"timer", "mine"}

NoView == [chain |-> <<>>, conf |-> {}, pool |-> {}]

Idle == [pc |-> "idle", block |-> NoBlock, block_id |-> 0, settled |-> "none"]

ConnectionInit ==
    /\ up = [n \in Nodes |-> n = RegAuth]
    /\ bchain = [n \in Nodes |-> IF n = RegAuth THEN <<GenesisRow(toISOString(0))>> ELSE <<>>]
    /\ mempool = [n \in Nodes |->
          IF n = RegAuth THEN {BroadcastTx(i) : i \in 1..BLOCK_SIZE} ELSE {}]
    /\ txMsgs = {BroadcastTx(i) : i \in 1..(BLOCK_SIZE + 1)}
    /\ now = BLOCK_SIZE + 1
    /\ nextTx = BLOCK_SIZE + 1
    /\ confirmed = [n \in Nodes |-> {}]
    /\ blkMsgs = {}
    /\ networkNodes = [n \in Nodes |-> <<>>]
    /\ posts = 0
    /\ accepted = [n \in Nodes |-> {}]
    /\ call = [txn |-> FALSE, owner |-> "none", writers |-> {}, view |-> NoView,
               shared |-> FALSE, ops |-> [o \in Callers |-> Idle]]
    /\ last = NoRequest

\* The tables as a statement on the connection sees them: with the rows
\* written since BEGIN while a transaction is open.
View == IF call.txn THEN call.view ELSE Ledger(RegAuth)

\* A statement of caller o has left the tables as v: within the open
\* transaction, or else on its own.
Written(o, v, ops) ==
    IF call.txn
    THEN /\ call' = [call EXCEPT !.view = v, !.ops = ops,
                                 !.writers = IF v = call.view THEN @ ELSE @ \cup {o}]
         /\ UNCHANGED <<bchain, confirmed, mempool>>
    ELSE /\ call' = [call EXCEPT !.ops = ops]
         /\ bchain' = [bchain EXCEPT ![RegAuth] = v.chain]
         /\ confirmed' = [confirmed EXCEPT ![RegAuth] = v.conf]
         /\ mempool' = [mempool EXCEPT ![RegAuth] = v.pool]

\* The transaction on the connection is over, ended by caller o.
Ended(o, ops) ==
    [call EXCEPT !.txn = FALSE, !.owner = "none", !.writers = {}, !.view = NoView,
                 !.ops = ops,
                 !.shared = @ \/ (call.writers \cup {call.owner}) # {o}]

\* The block mineBlockInternal builds on the last row of chain.
NewBlockOn(chain, pendingTransactions, date) ==
    LET lastBlock == {r \in Range(chain) : \A q \in Range(chain) : q.blockIndex <= r.blockIndex}
        unhashed == Block(IF lastBlock = {} THEN 0
                          ELSE (CHOOSE r \in lastBlock : TRUE).blockIndex + 1,
                          date, pendingTransactions,
                          calculateMerkleRoot(pendingTransactions),
                          IF lastBlock = {} THEN "0" ELSE (CHOOSE r \in lastBlock : TRUE).hash,
                          0, "")
    IN  [unhashed EXCEPT !.hash = BlockHash(unhashed)]

\* mineBlockInternal up to its call of addBlockToBlockchain: the count, the
\* pending transactions and the last block, as the connection shows them.
readForMining(o) ==
    /\ call.ops[o].pc = "idle"
    /\ Cardinality(View.pool) >= BLOCK_SIZE
    /\ Len(View.chain) < MaxChain
    /\ \E pendingTransactions \in getTransactionsForBlock(View.pool, BLOCK_SIZE) :
          call' = [call EXCEPT !.ops[o] =
                      [pc |-> "begin", settled |-> "pending", block_id |-> 0,
                       block |-> NewBlockOn(View.chain, pendingTransactions,
                                            toISOString(now))]]
    /\ UNCHANGED <<up, bchain, mempool, confirmed, txMsgs, blkMsgs, networkNodes, now,
                   nextTx, posts, accepted, last>>

\* db.serialize of addBlockToBlockchain: BEGIN TRANSACTION and the INSERT
\* INTO bchain, queued together.  BEGIN fails when a transaction is open
\* and the promise is rejected, but the INSERT runs all the same, in the
\* transaction that is open.  When the INSERT fails its callback queues a
\* ROLLBACK.
beginAndInsertBlock(o) ==
    /\ call.ops[o].pc = "begin"
    /\ LET beginErr == call.txn
           block == call.ops[o].block
           fails == BlockInsertFails(View.chain, block)
           rows == IF fails THEN View.chain
                   ELSE Append(View.chain, BlockRow(View.chain, block))
       IN  call' = [call EXCEPT
                       !.txn = TRUE,
                       !.owner = IF beginErr THEN @ ELSE o,
                       !.writers = (IF beginErr THEN @ ELSE {})
                                       \cup (IF fails THEN {} ELSE {o}),
                       !.view = [View EXCEPT !.chain = rows],
                       !.ops[o] = [pc |-> IF fails THEN "rollback" ELSE "insertTransactions",
                                   settled |-> IF beginErr \/ fails THEN "rejected"
                                               ELSE "pending",
                                   block_id |-> Len(View.chain) + 1,
                                   block |-> block]]
    /\ UNCHANGED <<up, bchain, mempool, confirmed, txMsgs, blkMsgs, networkNodes, now,
                   nextTx, posts, accepted, last>>

\* The INSERTs INTO confirmed_transactions, issued by the callback of the
\* INSERT INTO bchain.  An INSERT fails when its transaction_id is in the
\* table or no row of bchain has its block_id; when one fails a ROLLBACK is
\* queued, otherwise COMMIT.
insertConfirmed(o) ==
    /\ call.ops[o].pc = "insertTransactions"
    /\ LET this == call.ops[o]
           rows == {[r EXCEPT !.block_id = this.block_id] :
                       r \in ConfirmedRows(<<>>, this.block)}
           inserted == {r \in rows :
                           /\ \E b \in Range(View.chain) : b.id = r.block_id
                           /\ \A c \in View.conf : c.transaction_id # r.transaction_id}
       IN  Written(o, [View EXCEPT !.conf = @ \cup inserted],
                   [call.ops EXCEPT ![o] =
                       IF inserted = rows
                       THEN [this EXCEPT !.pc = "commit"]
                       ELSE [this EXCEPT !.pc = "rollback", !.settled = "rejected"]])
    /\ UNCHANGED <<up, txMsgs, blkMsgs, networkNodes, now, nextTx, posts, accepted, last>>

\* COMMIT.  It ends the transaction that is open, whosever it is, and
\* fails when none is open: the callback queues a ROLLBACK and rejects.
\* The caller goes on to prune when its promise had not been rejected.
commitStatement(o) ==
    /\ call.ops[o].pc = "commit"
    /\ LET this == call.ops[o]
       IN  IF call.txn
           THEN /\ call' = Ended(o, [call.ops EXCEPT ![o] =
                                IF this.settled = "pending"
                                THEN [this EXCEPT !.pc = "prune", !.settled = "resolved"]
                                ELSE [this EXCEPT !.pc = "done"]])
                /\ bchain' = [bchain EXCEPT ![RegAuth] = call.view.chain]
                /\ confirmed' = [confirmed EXCEPT ![RegAuth] = call.view.conf]
                /\ mempool' = [mempool EXCEPT ![RegAuth] = call.view.pool]
           ELSE /\ call' = [call EXCEPT !.ops[o] =
                                [this EXCEPT !.pc = "rollback", !.settled = "rejected"]]
                /\ UNCHANGED <<bchain, confirmed, mempool>>
    /\ UNCHANGED <<up, txMsgs, blkMsgs, networkNodes, now, nextTx, posts, accepted, last>>

\* ROLLBACK.  It undoes the transaction that is open, whosever it is; its
\* own error, when none is open, is not looked at.
rollbackStatement(o) ==
    /\ call.ops[o].pc = "rollback"
    /\ LET ops == [call.ops EXCEPT ![o].pc = "done"]
       IN  call' = IF call.txn THEN Ended(o, ops) ELSE [call EXCEPT !.ops = ops]
    /\ UNCHANGED <<up, bchain, mempool, confirmed, txMsgs, blkMsgs, networkNodes, now,
                   nextTx, posts, accepted, last>>

\* Back in mineBlockInternal after addBlockToBlockchain has resolved:
\* removeTransactionsFromMempool, and the answer (no peer is registered).
pruneMined(o) ==
    /\ call.ops[o].pc = "prune"
    /\ LET block == call.ops[o].block
       IN  /\ Written(o, [View EXCEPT !.pool =
                              removeTransactionsFromMempool(@, TxIds(block.transactions))],
                      [call.ops EXCEPT ![o].pc = "done"])
           /\ blkMsgs' = blkMsgs \cup {block}
           /\ last' = Response(o, RegAuth, 200, "Block mined and broadcast successfully.",
                               block)
    /\ UNCHANGED <<up, txMsgs, networkNodes, now, nextTx, posts, accepted>>

\* POST /api/transactions/receive of the next transaction a project node
\* broadcast: the INSERT INTO mempool_transactions of createTransaction.
admitTransaction(tx) ==
    /\ posts < MaxPosts
    /\ posts' = posts + 1
    /\ LET err == MempoolInsertError(View.pool, tx)
       IN  IF err # ""
           THEN /\ last' = [Response("receiveTransaction", RegAuth, 409, "", NoBlock)
                               EXCEPT !.tx = tx, !.error = err]
                /\ UNCHANGED <<bchain, mempool, confirmed, call>>
           ELSE /\ Written("receiveTransaction", [View EXCEPT !.pool = @ \cup {tx}], call.ops)
                /\ last' = [Response("receiveTransaction", RegAuth, 201,
                                     "Transaction received and accepted into mempool.",
                                     NoBlock)
                               EXCEPT !.tx = tx]
    /\ UNCHANGED <<up, txMsgs, blkMsgs, networkNodes, now, nextTx, accepted>>

ReadForMining == \E o \in Callers : readForMining(o)

BeginAndInsertBlock == \E o \in DOMAIN call.ops : beginAndInsertBlock(o)

InsertConfirmed == \E o \in DOMAIN call.ops : insertConfirmed(o)

CommitStatement == \E o \in DOMAIN call.ops : commitStatement(o)

RollbackStatement == \E o \in DOMAIN call.ops : rollbackStatement(o)

PruneMined == \E o \in Callers : pruneMined(o)

AdmitTransaction == admitTransaction(BroadcastTx(BLOCK_SIZE + 1))

ConnectionNext ==
    \/ ReadForMining
    \/ BeginAndInsertBlock
    \/ InsertConfirmed
    \/ CommitStatement
    \/ RollbackStatement
    \/ PruneMined
    \/ AdmitTransaction

ConnectionSpec == ConnectionInit /\ [][ConnectionNext]_vars

\* ------------------------------ one block delivered twice to the same node
\* Requests to /blocks/receive of one node carry the same block, which is
\* the next block of that node's chain; each handler suspends at its
\* awaits.  The statements of addBlockToBlockchain are those of
\* ConnectionSpec, on the same connection.
Receivers == {"first", "second", "third"}

\* The block that is delivered: sealed on the genesis block, with the one
\* transaction of the mempool.
DeliveredBlock ==
    SealedBlock(1, toISOString(1), <<BroadcastTx(1)>>, GenesisRow(toISOString(0)).hash)

ReceptionInit ==
    /\ up = [n \in Nodes |-> n = RegAuth]
    /\ bchain = [n \in Nodes |-> IF n = RegAuth THEN <<GenesisRow(toISOString(0))>> ELSE <<>>]
    /\ mempool = [n \in Nodes |-> IF n = RegAuth THEN {BroadcastTx(1)} ELSE {}]
    /\ txMsgs = {BroadcastTx(1)}
    /\ now = 1
    /\ nextTx = 1
    /\ confirmed = [n \in Nodes |-> {}]
    /\ blkMsgs = {DeliveredBlock}
    /\ networkNodes = [n \in Nodes |-> <<>>]
    /\ posts = 0
    /\ accepted = [n \in Nodes |-> {}]
    /\ call = [txn |-> FALSE, owner |-> "none", writers |-> {}, view |-> NoView,
               shared |-> FALSE, ops |-> [o \in Receivers |-> Idle]]
    /\ last = NoRequest

\* /blocks/receive up to its call of addBlockToBlockchain: getLastBlock, as
\* the connection shows the table, and the checks 2a, 2b and 3 (the block
\* has its fields, its hash and its merkle root).  A handler that answers
\* here is done.
readForReception(o, newBlock) ==
    /\ call.ops[o].pc = "idle"
    /\ LET lastBlock == {r \in Range(View.chain) :
                            \A q \in Range(View.chain) : q.blockIndex <= r.blockIndex}
           lastIndex == IF lastBlock = {} THEN -1
                        ELSE (CHOOSE r \in lastBlock : TRUE).blockIndex
           lastHash == IF lastBlock = {} THEN "0" ELSE (CHOOSE r \in lastBlock : TRUE).hash
           note == IF newBlock.blockIndex <= lastIndex THEN IgnoredBlock
                   ELSE IF newBlock.blockIndex # lastIndex + 1 THEN NonSequentialIndex
                   ELSE IF newBlock.previousBlockHash # lastHash THEN LinkageMismatch
                   ELSE ""
       IN  IF note # ""
           THEN /\ call' = [call EXCEPT !.ops[o] = [Idle EXCEPT !.pc = "done"]]
                /\ last' = [Response("receiveBlock", RegAuth,
                                     IF note = IgnoredBlock THEN 200 ELSE 400, note, NoBlock)
                               EXCEPT !.request = newBlock]
           ELSE /\ call' = [call EXCEPT !.ops[o] =
                               [pc |-> "begin", settled |-> "pending", block_id |-> 0,
                                block |-> newBlock]]
                /\ UNCHANGED last
    /\ UNCHANGED <<up, bchain, mempool, confirmed, txMsgs, blkMsgs, networkNodes, now,
                   nextTx, posts, accepted>>

\* Back in /blocks/receive after addBlockToBlockchain has resolved:
\* removeTransactionsFromMempool and the answer 200.  (A rejected promise
\* goes to the catch, which answers 500.)
pruneReceived(o) ==
    /\ call.ops[o].pc = "prune"
    /\ LET block == call.ops[o].block
       IN  /\ Written(o, [View EXCEPT !.pool =
                              removeTransactionsFromMempool(@, TxIds(block.transactions))],
                      [call.ops EXCEPT ![o].pc = "done"])
           /\ accepted' = [accepted EXCEPT ![RegAuth] = @ \cup {block}]
           /\ last' = [Response("receiveBlock", RegAuth, 200, BlockAccepted, block)
                          EXCEPT !.request = block]
    /\ UNCHANGED <<up, txMsgs, blkMsgs, networkNodes, now, nextTx, posts>>

ReadForReception == \E o \in Receivers : \E newBlock \in blkMsgs : readForReception(o, newBlock)

PruneReceived == \E o \in Receivers : pruneReceived(o)

ReceptionNext ==
    \/ ReadForReception
    \/ BeginAndInsertBlock
    \/ InsertConfirmed
    \/ CommitStatement
    \/ RollbackStatement
    \/ PruneReceived

ReceptionSpec == ReceptionInit /\ [][ReceptionNext]_vars

\* --------------------------------------------- the Regulator and its timer
\* The Regulator alone, on its genesis block: a project node posts the
\* transactions it broadcast to /transactions/receive, in any order and
\* more than once, and the timer of index.js ticks.  setInterval keeps
\* ticking: a tick that can change something does come.
MaxBroadcast == 6
MaxDeliveries == 10

MiningInit ==
    /\ up = [n \in Nodes |-> n = RegAuth]
    /\ bchain = [n \in Nodes |-> IF n = RegAuth THEN <<GenesisRow(toISOString(0))>> ELSE <<>>]
    /\ mempool = [n \in Nodes |-> {}]
    /\ confirmed = [n \in Nodes |-> {}]
    /\ txMsgs = {BroadcastTx(i) : i \in 1..MaxBroadcast}
    /\ now = MaxBroadcast
    /\ nextTx = MaxBroadcast
    /\ blkMsgs = {}
    /\ networkNodes = [n \in Nodes |-> <<>>]
    /\ posts = 0
    /\ accepted = [n \in Nodes |-> {}]
    /\ call = NoCall
    /\ last = NoRequest

Deliver ==
    /\ posts < MaxDeliveries
    /\ \E t \in txMsgs : postTransaction(RegAuth, t)

MiningNext ==
    \/ Deliver
    \/ MineTimer

MiningSpec == MiningInit /\ [][MiningNext]_vars /\ WF_vars(MineTimer)

\* ------------------------------------- the Regulator as the only producer
\* Only the Regulator mines.  It is up on its genesis block with the
\* transactions of two blocks pending; the project node starts at any
\* moment, the nodes register one another (or do not, and the broadcast
\* misses them), and the blocks the Regulator broadcast are posted again to
\* any node, in any order.
MaxBlockPosts == 3

AuthorityInit ==
    /\ up = [n \in Nodes |-> n = RegAuth]
    /\ bchain = [n \in Nodes |-> IF n = RegAuth THEN <<GenesisRow(toISOString(0))>> ELSE <<>>]
    /\ mempool = [n \in Nodes |->
                     IF n = RegAuth THEN {BroadcastTx(i) : i \in DOMAIN Dates} ELSE {}]
    /\ confirmed = [n \in Nodes |-> {}]
    /\ txMsgs = {BroadcastTx(i) : i \in DOMAIN Dates}
    /\ now = Cardinality(DOMAIN Dates)
    /\ nextTx = Cardinality(DOMAIN Dates)
    /\ blkMsgs = {}
    /\ networkNodes = [n \in Nodes |-> <<>>]
    /\ posts = 0
    /\ accepted = [n \in Nodes |-> {}]
    /\ call = NoCall
    /\ last = NoRequest

\* POST /api/blocks/mine on the Regulator
AuthorityMine == mineBlockInternal("mine", RegAuth)

DeliverBlock ==
    /\ posts < MaxBlockPosts
    /\ \E n \in Nodes : \E newBlock \in blkMsgs : postBlock(n, newBlock)

AuthorityNext ==
    \/ Start
    \/ RegisterNode
    \/ AuthorityMine
    \/ MineTimer
    \/ DeliverBlock

AuthoritySpec == AuthorityInit /\ [][AuthorityNext]_vars


\* -------------------------------------------------------------- properties
\* The step serves a block a peer posted to /api/blocks/receive.
BlockPosted == posts' = posts + 1 /\ last'.op = "receiveBlock"

\* Every property check 1 asks for is there.
HasRequiredFields(b) ==
    /\ b.absent \cap {"newBlock", "blockIndex", "transactions"} = {}
    /\ ~Falsy(b.timestamp) /\ ~Falsy(b.merkleRoot)
    /\ ~Falsy(b.previousBlockHash) /\ ~Falsy(b.hash)

\* Block b is stored on the chain of node n.
Stored(n, b) ==
    \E r \in Range(bchain[n]) :
        /\ r.blockIndex = b.blockIndex /\ r.hash = b.hash
        /\ r.previousBlockHash = b.previousBlockHash /\ r.merkleRoot = b.merkleRoot

C2_StoredBlocksRecompute ==
    \A n \in Nodes : \A r \in Range(bchain[n]) :
        /\ calculateMerkleRoot(r.transactions) = r.merkleRoot
        /\ BlockHash(RowAsBlock(r)) = r.hash

\* C3 (as the specification states it): every transaction in a mempool or
\* a confirmed store has for rowHash the hash recomputed from its stored
\* transactionId, timestamp and rawDataJson.
C3_StoredRowHashesRecompute ==
    \A n \in Nodes :
        /\ \A t \in mempool[n] :
               t.rowHash = RowHash(t.transactionId, t.timestamp, t.rawDataJson)
        /\ \A c \in confirmed[n] :
               c.rowHash = RowHash(c.transaction_id, c.timestamp, c.raw_data_json)

\* C4: when a node that has accepted and committed a block on
\* /blocks/receive is posted the same block again, the second request is
\* answered 200 as ignored, nothing is stored, and the chain holds exactly
\* one copy of the block.
C4_SecondReceptionIgnored ==
    [][\A n \in Nodes :
          LET b == last'.request
          IN  (BlockPosted /\ last'.node = n /\ b \in accepted[n])
              => /\ last'.status = 200 /\ last'.note = IgnoredBlock
                 /\ UNCHANGED <<bchain, confirmed, mempool>>
                 /\ Cardinality({i \in DOMAIN bchain'[n] :
                                    bchain'[n][i].hash = b.hash}) = 1
                 /\ Cardinality({i \in DOMAIN bchain'[n] :
                                    bchain'[n][i].blockIndex = b.blockIndex}) = 1]_vars

\* A node has just been posted again a block it had accepted on
\* /blocks/receive, and has answered.
C4_Witness ==
    /\ last.op = "receiveBlock"
    /\ last.request \in accepted[last.node]
    /\ last.status = 200 /\ last.note = IgnoredBlock
    /\ Stored(last.node, last.request)

\* C5: a posted block that has the required fields and whose blockIndex is
\* at most the node's last index is answered 200 as ignored, whatever else
\* it holds, and chain, confirmed store and mempool stay as they are.
C5_StaleBlockIgnored ==
    [][\A n \in Nodes :
          LET b == last'.request
          IN  (/\ BlockPosted /\ last'.node = n
               /\ HasRequiredFields(b)
               /\ b.blockIndex <= lastBlockIndex(n))
              => /\ last'.status = 200 /\ last'.note = IgnoredBlock
                 /\ UNCHANGED <<bchain, confirmed, mempool>>]_vars

\* A node has answered a posted block at its own last index that is not the
\* block it stores there: one with another hash.
C5_Witness ==
    /\ last.op = "receiveBlock"
    /\ HasRequiredFields(last.request)
    /\ last.request.blockIndex = lastBlockIndex(last.node)
    /\ ~Stored(last.node, last.request)
    /\ last.note = IgnoredBlock

\* C6: a posted block at last index + 1 whose previousBlockHash is not the
\* hash of the node's last block is rejected with LinkageMismatch, and
\* chain, confirmed store and mempool stay as they are.
C6_UnlinkedBlockRejected ==
    [][\A n \in Nodes :
          LET b == last'.request
          IN  (/\ BlockPosted /\ last'.node = n
               /\ HasRequiredFields(b)
               /\ b.blockIndex = lastBlockIndex(n) + 1
               /\ b.previousBlockHash # lastBlockHash(n))
              => /\ last'.status = 400 /\ last'.note = LinkageMismatch
                 /\ UNCHANGED <<bchain, confirmed, mempool>>]_vars

\* A node has rejected a sealed block at its last index + 1 that links to
\* another block.
C6_Witness ==
    /\ last.op = "receiveBlock"
    /\ HasRequiredFields(last.request)
    /\ last.request.blockIndex = lastBlockIndex(last.node) + 1
    /\ last.request.previousBlockHash # lastBlockHash(last.node)
    /\ BlockHash(last.request) = last.request.hash
    /\ last.note = LinkageMismatch

\* C7: a posted block whose blockIndex is beyond last index + 1 is rejected
\* with NonSequentialIndex; nothing of it is kept: chain, confirmed store,
\* mempool and the sets of pending messages stay as they are.
C7_GapRejected ==
    [][\A n \in Nodes :
          LET b == last'.request
          IN  (/\ BlockPosted /\ last'.node = n
               /\ HasRequiredFields(b)
               /\ b.blockIndex > lastBlockIndex(n) + 1)
              => /\ last'.status = 400 /\ last'.note = NonSequentialIndex
                 /\ UNCHANGED <<bchain, confirmed, mempool, accepted, blkMsgs>>]_vars

\* A node has rejected a sealed block that links to its last block and
\* lies one index beyond the next.
C7_Witness ==
    /\ last.op = "receiveBlock"
    /\ HasRequiredFields(last.request)
    /\ last.request.blockIndex > lastBlockIndex(last.node) + 1
    /\ last.request.previousBlockHash = lastBlockHash(last.node)
    /\ last.note = NonSequentialIndex

\* A posted block is the next of node n's chain: it has the required
\* fields and a list of transactions, its index is last index + 1 and its
\* previousBlockHash the hash of n's last block.
NextOfChain(n, b) ==
    /\ HasRequiredFields(b)
    /\ b.txsIsArray
    /\ b.blockIndex = lastBlockIndex(n) + 1
    /\ b.previousBlockHash = lastBlockHash(n)

\* C8: a posted block that is the next of the chain is rejected, with
\* chain, confirmed store and mempool as they are, with HashMismatch when
\* its hash is not the header hash recomputed from its fields, and with
\* MerkleMismatch when the hash is that one and its merkleRoot is not the
\* root recomputed from its transactions.
C8_HashAndMerkleChecked ==
    [][\A n \in Nodes :
          LET b == last'.request
          IN  (BlockPosted /\ last'.node = n /\ NextOfChain(n, b))
              => /\ BlockHash(b) # b.hash
                      => /\ last'.status = 400 /\ last'.note = HashMismatch
                         /\ UNCHANGED <<bchain, confirmed, mempool>>
                 /\ (BlockHash(b) = b.hash
                        /\ calculateMerkleRoot(b.transactions) # b.merkleRoot)
                      => /\ last'.status = 400 /\ last'.note = MerkleMismatch
                         /\ UNCHANGED <<bchain, confirmed, mempool>>]_vars

\* A node has rejected a block of five transactions that is the next of its
\* chain: its merkleRoot is not the root of its transactions, under a
\* header hash that matches.
C8_Witness ==
    /\ last.op = "receiveBlock"
    /\ NextOfChain(last.node, last.request)
    /\ Len(last.request.transactions) = BLOCK_SIZE
    /\ BlockHash(last.request) = last.request.hash
    /\ calculateMerkleRoot(last.request.transactions) # last.request.merkleRoot
    /\ last.note = MerkleMismatch

\* C9 (as the specification states it): a request to /blocks/receive whose
\* block is absent, lacks a required field or has transactions that are no
\* list is answered 400 with MalformedBlock; the node goes on running, and
\* chain, confirmed store and mempool stay as they are.
C9_MalformedBlockReported ==
    [][(BlockPosted /\ (~HasRequiredFields(last'.request) \/ ~last'.request.txsIsArray))
          => /\ last'.status = 400 /\ last'.note = MalformedBlock
             /\ UNCHANGED <<up, bchain, confirmed, mempool>>]_vars

\* A posted block passes the five stages on node n.
PassesFiveStages(n, b) ==
    /\ NextOfChain(n, b)
    /\ BlockHash(b) = b.hash
    /\ calculateMerkleRoot(b.transactions) = b.merkleRoot

\* Block b is well-typed: it has a nonce, and each of its transactions has
\* the fields of a transaction (the measurement values apart).
WellTyped(b) ==
    /\ "nonce" \notin b.absent
    /\ b.txsIsArray
    /\ \A i \in 1..Len(b.transactions) :
           Undefined \notin {b.transactions[i].transactionId, b.transactions[i].projId,
                             b.transactions[i].timestamp, b.transactions[i].submitterId,
                             b.transactions[i].rawDataJson, b.transactions[i].rowHash}

\* No transaction id of block b is twice in b or already in the confirmed
\* store of node n.
NotYetConfirmed(n, b) ==
    \A i \in 1..Len(b.transactions) :
        /\ \A c \in confirmed[n] : c.transaction_id # b.transactions[i].transactionId
        /\ \A j \in 1..Len(b.transactions) :
               j # i => b.transactions[j].transactionId # b.transactions[i].transactionId

\* Node n has committed block b in this step: its chain is longer by the
\* row of b, every transaction of b is in the confirmed store under the id
\* of that row, and no id of b is in the mempool.
Committed(n, b) ==
    /\ Len(bchain'[n]) = Len(bchain[n]) + 1
    /\ SubSeq(bchain'[n], 1, Len(bchain[n])) = bchain[n]
    /\ LET r == bchain'[n][Len(bchain'[n])]
       IN  /\ r.blockIndex = b.blockIndex /\ r.hash = b.hash
           /\ r.timestamp = b.timestamp /\ r.nonce = b.nonce
           /\ r.previousBlockHash = b.previousBlockHash /\ r.merkleRoot = b.merkleRoot
           /\ Len(r.transactions) = Len(b.transactions)
           /\ \A i \in 1..Len(b.transactions) :
                  /\ r.transactions[i].transactionId = b.transactions[i].transactionId
                  /\ \E c \in confirmed'[n] :
                         /\ c.transaction_id = b.transactions[i].transactionId
                         /\ c.block_id = r.id
                         /\ c.rowHash = b.transactions[i].rowHash
    /\ confirmed[n] \subseteq confirmed'[n]
    /\ Cardinality(confirmed'[n]) = Cardinality(confirmed[n]) + Len(b.transactions)
    /\ \A t \in mempool'[n] : t \in mempool[n] /\ t.transactionId \notin TxIds(b.transactions)
    /\ \A t \in mempool[n] : t.transactionId \notin TxIds(b.transactions) => t \in mempool'[n]

\* C10 (as the specification states it): a posted block that passes the
\* five stages, all its fields well-typed, is committed.
C10_ValidBlockCommitted ==
    [][\A n \in Nodes :
          LET b == last'.request
          IN  (BlockPosted /\ last'.node = n /\ PassesFiveStages(n, b) /\ WellTyped(b))
              => Committed(n, b)]_vars

\* C10 (amended): a posted block that passes the five stages, is
\* well-typed and has no transaction id twice or already in the node's
\* confirmed store is answered 200 and committed: the chain grows by
\* exactly that block, its transactions are in the confirmed store tagged
\* with it, and none of its transaction ids is left in the mempool.
C10_StorableBlockCommitted ==
    [][\A n \in Nodes :
          LET b == last'.request
          IN  (/\ BlockPosted /\ last'.node = n
               /\ PassesFiveStages(n, b) /\ WellTyped(b) /\ NotYetConfirmed(n, b))
              => /\ last'.status = 200 /\ last'.note = BlockAccepted
                 /\ Committed(n, b)]_vars

\* The Regulator has accepted a posted block of five transactions: the
\* block is on its chain, the five are in its confirmed store under the
\* block's row, and none of them is in its mempool.
C10_Witness ==
    /\ last.op = "receiveBlock"
    /\ last.node = RegAuth
    /\ last.note = BlockAccepted
    /\ Len(last.block.transactions) = BLOCK_SIZE
    /\ Stored(RegAuth, last.block)
    /\ \A i \in 1..BLOCK_SIZE :
           /\ \E c \in confirmed[RegAuth] :
                  /\ c.transaction_id = last.block.transactions[i].transactionId
                  /\ c.block_id = Len(bchain[RegAuth])
           /\ \A t \in mempool[RegAuth] :
                  t.transactionId # last.block.transactions[i].transactionId


\* A commit has ended, by answering or by the process stopping.
CallEnded == call.pc \in {"done", "rejected", "failed", "terminated"}

\* The three effects of the commit of call.block, against the ledger before
\* the call.
HeaderStored ==
    \E i \in 1..Len(bchain[call.node]) :
        /\ i > Len(call.before.chain)
        /\ bchain[call.node][i].hash = call.block.hash

TransactionsConfirmed ==
    \A tx \in Range(call.block.transactions) :
        \E c \in confirmed[call.node] \ call.before.conf : c.transaction_id = tx.transactionId

MempoolPruned ==
    \A t \in mempool[call.node] : t.transactionId \notin TxIds(call.block.transactions)

\* C11: commitBlock is all-or-nothing over its three steps.  Once a commit
\* has ended, by answering or by the process stopping, either the header
\* of its block is stored, its transactions are in the confirmed store and
\* none of their ids is left in the mempool, or the ledger is what it was
\* before the call.
C11_CommitAllOrNothing ==
    CallEnded =>
        \/ HeaderStored /\ TransactionsConfirmed /\ MempoolPruned
        \/ Ledger(call.node) = call.before

\* A peer's request to /api/transactions/receive is answered in this step.
TransactionPosted == posts' = posts + 1 /\ last'.op = "receiveTransaction"

MandatoryFields == {"transactionId", "timestamp", "rowHash", "rawDataJson", "projId"}

\* A mandatory property of transaction t is missing.
LacksField(t) == \E f \in MandatoryFields : t[f] = Undefined

\* C12: /transactions/receive rejects a transaction that misses any of
\* transactionId, timestamp, rowHash, rawDataJson or projId as having
\* missing fields, and a complete one whose recomputed hash is not the
\* supplied rowHash as a hash mismatch; in both cases every mempool is
\* left as it was.
C12_InvalidTransactionRejected ==
    [][\A n \in Nodes :
          LET t == last'.tx
          IN  (TransactionPosted /\ last'.node = n) =>
                 /\ LacksField(t) =>
                       /\ last'.status = 400
                       /\ last'.note = "Missing mandatory transaction fields for reception."
                       /\ mempool' = mempool
                 /\ (~LacksField(t)
                     /\ sha256(t.transactionId \o t.timestamp \o t.rawDataJson) # t.rowHash) =>
                       /\ last'.status = 400
                       /\ last'.note = "Transaction hash mismatch. Data may be corrupted."
                       /\ mempool' = mempool]_vars

\* A transaction without projId has been posted to a node that does not
\* hold its id, and was rejected for the missing field.
C12_Witness ==
    /\ last.op = "receiveTransaction"
    /\ last.tx.projId = Undefined
    /\ last.tx.transactionId # Undefined
    /\ \A t \in mempool[last.node] : t.transactionId # last.tx.transactionId
    /\ last.status = 400
    /\ last.note = "Missing mandatory transaction fields for reception."

\* A request to /api/transactions/submit is answered in this step.
TransactionSubmitted == last'.op = "submit" /\ nextTx' \in {nextTx, nextTx + 1} /\ last' # last

\* The answers the two routes give to a failure they do not tell apart.
GenericFailure(r) ==
    /\ r.status = 500
    /\ r.note \in {"Transaction broadcast failed.", "Failed to accept received transaction."}

\* The step admits, on node n, a transaction that would pass the checks of
\* reception and whose id the mempool of n already holds.
DuplicateAdmitted(n) ==
    /\ TransactionPosted \/ TransactionSubmitted
    /\ last'.node = n
    /\ ~LacksField(last'.tx)
    /\ sha256(last'.tx.transactionId \o last'.tx.timestamp \o last'.tx.rawDataJson)
          = last'.tx.rowHash
    /\ \E t \in mempool[n] : t.transactionId = last'.tx.transactionId

\* C13: admitting a transaction whose transactionId is already in the
\* node's mempool fails with an answer of its own, not the answer of a
\* generic failure, on the reception and on the submission path, and
\* leaves the mempool of the node as it was.
C13_DuplicateReportedDistinctly ==
    [][\A n \in Nodes :
          DuplicateAdmitted(n) =>
              /\ last'.status >= 400
              /\ ~GenericFailure(last')
              /\ mempool'[n] = mempool[n]]_vars

\* In this step /submit of node n has stored the transaction that
\* createTransaction returned, last'.tx.
TransactionCreated(n) ==
    /\ TransactionSubmitted
    /\ last'.node = n
    /\ last'.tx \in mempool'[n] \ mempool[n]

\* The peers of n that its broadcast reaches.
ReachedPeers(n) ==
    {m \in Nodes : up[m] /\ \E i \in DOMAIN networkNodes[n] : networkNodes[n][i] = Api(m)}

\* C14: the transaction createTransaction returns to /submit has its
\* generated fields populated, and every peer the broadcast reaches whose
\* mempool does not hold its id lets that object through the checks of
\* reception and holds it afterwards with the same transactionId,
\* timestamp, rawDataJson and rowHash.
C14_SubmittedTransactionAccepted ==
    [][\A n \in Nodes :
          TransactionCreated(n) =>
              LET tx == last'.tx
              IN  /\ Undefined \notin {tx.transactionId, tx.timestamp, tx.rawDataJson,
                                       tx.rowHash, tx.projId}
                  /\ \A m \in ReachedPeers(n) :
                        (\A t \in mempool[m] : t.transactionId # tx.transactionId) =>
                            \E t \in mempool'[m] :
                                /\ t.transactionId = tx.transactionId
                                /\ t.timestamp = tx.timestamp
                                /\ t.rawDataJson = tx.rawDataJson
                                /\ t.rowHash = tx.rowHash]_vars

\* A tick of the timer or a request to /blocks/mine is served in this step.
MiningStep == last'.op \in {"mine", "timer"} /\ last' # last

\* C15: mining on a node whose mempool holds fewer than BLOCK_SIZE (5)
\* transactions does nothing: the route answers 200 with the notice that
\* it is not mining yet, the timer calls nothing, no error is reported, and
\* the chain, the confirmed store and the mempool of every node and the
\* blocks broadcast are left as they were.
C15_IdleBelowBlockSize ==
    [][\A n \in Nodes :
          (MiningStep /\ last'.node = n /\ Cardinality(mempool[n]) < 5) =>
              /\ last'.status # 500
              /\ last'.op = "mine" => last'.status = 200 /\ last'.note = "Not mining yet."
              /\ last'.block = NoBlock
              /\ bchain' = bchain
              /\ confirmed' = confirmed
              /\ mempool' = mempool
              /\ blkMsgs' = blkMsgs
              /\ accepted' = accepted]_vars

\* A node with pending transactions, but fewer than five, and a peer that
\* is up has answered /blocks/mine with the notice.
C15_Witness ==
    /\ last.op = "mine"
    /\ last.note = "Not mining yet."
    /\ Cardinality(mempool[last.node]) \in 1..4
    /\ \E m \in Nodes : up[m] /\ Api(m) \in Range(networkNodes[last.node])
    /\ blkMsgs = {}

\* mineBlockInternal has committed and pruned its block.
Mined == call.op = "mine" /\ call.pc = "done"

\* C16: mining on a node with at least five pending transactions produces
\* a block of exactly five of the transactions that were pending, in
\* ascending order of timestamp, none of them younger than a transaction
\* left out; exactly those five are gone from the mempool and the others
\* are still in it.
C16_OldestFiveMined ==
    Mined =>
        LET txs == call.block.transactions
            pending == call.before.pool
        IN  /\ Len(txs) = 5
            /\ Cardinality(Range(txs)) = 5
            /\ Range(txs) \subseteq pending
            /\ \A i, j \in 1..Len(txs) :
                  i < j => DateValue(txs[i].timestamp) <= DateValue(txs[j].timestamp)
            /\ \A t \in pending \ Range(txs) : \A i \in 1..Len(txs) :
                  DateValue(txs[i].timestamp) <= DateValue(t.timestamp)
            /\ mempool[call.node] = pending \ Range(txs)

\* A block has been mined from more than five pending transactions, and
\* the younger ones are still pending.
C16_Witness ==
    /\ Mined
    /\ Cardinality(call.before.pool) > 5
    /\ mempool[call.node] # {}
    /\ Len(bchain[call.node]) = Len(call.before.chain) + 1

\* The stored block of highest blockIndex on the chain of node n.
LastRow(n) ==
    CHOOSE r \in Range(bchain[n]) : \A q \in Range(bchain[n]) : q.blockIndex <= r.blockIndex

\* Block b is the block that follows the last block of node n.
FollowsLastBlock(n, b) ==
    /\ bchain[n] # <<>>
    /\ b.blockIndex = LastRow(n).blockIndex + 1
    /\ b.previousBlockHash = LastRow(n).hash

\* In this step node n, which has a last block, has mined and committed
\* the block last'.block.
BlockMined(n) ==
    /\ MiningStep
    /\ last'.node = n
    /\ "newBlock" \notin last'.block.absent
    /\ bchain[n] # <<>>

\* C17: a block mined on a node whose last block is L has blockIndex
\* L.blockIndex + 1, previousBlockHash L.hash and nonce 0, and every node
\* whose last block is L accepts and commits it: each peer the broadcast
\* reaches, and each node a peer posts it to later.
C17_MinedBlockExtendsAndIsAccepted ==
    [][/\ \A n \in Nodes :
             BlockMined(n) =>
                 LET b == last'.block
                 IN  /\ FollowsLastBlock(n, b)
                     /\ b.nonce = 0 /\ "nonce" \notin b.absent
                     /\ \A m \in ReachedPeers(n) \ {n} :
                           FollowsLastBlock(m, b) => Committed(m, b)
       /\ \A m \in Nodes :
             LET b == last'.request
             IN  (BlockPosted /\ last'.node = m /\ b \in blkMsgs /\ FollowsLastBlock(m, b))
                 => /\ last'.status = 200 /\ last'.note = BlockAccepted
                    /\ Committed(m, b)]_vars

\* The Regulator has mined a block on its last block, and a peer with the
\* same last block has committed it.
C17_Witness ==
    /\ last.op \in {"mine", "timer"}
    /\ last.node = RegAuth
    /\ last.status = 200
    /\ last.block.blockIndex >= 1
    /\ \E m \in Nodes \ {RegAuth} :
          /\ last.block \in accepted[m]
          /\ Stored(m, last.block)
          /\ Len(bchain[m]) = Len(bchain[RegAuth])

\* C18: only the authority node ("0") produces blocks: on any other node
\* neither the timer nor a request to /blocks/mine appends a locally built
\* block to the chain or broadcasts one.
C18_OnlyAuthorityMines ==
    [][\A n \in Nodes \ {RegAuth} :
          (MiningStep /\ last'.node = n) =>
              /\ bchain'[n] = bchain[n]
              /\ blkMsgs' = blkMsgs]_vars

\* In this step node n has mined the block last'.block and broadcast it.
BlockProduced(n) ==
    /\ MiningStep
    /\ last'.node = n
    /\ "newBlock" \notin last'.block.absent
    /\ last'.block \in blkMsgs'

\* The delivery of block b to peer m fails in this step: m is down, or b is
\* beyond m's chain and m does not commit it.
DeliveryFails(m, b) ==
    \/ ~up[m]
    \/ /\ bchain'[m] = bchain[m]
       /\ bchain[m] = <<>> \/ b.blockIndex > LastRow(m).blockIndex

\* The peers in the directory of node n.
Peers(n) == {m \in Nodes : \E i \in DOMAIN networkNodes[n] : networkNodes[n][i] = Api(m)} \ {n}

\* C19: when the delivery of a newly mined block to one or more peers
\* fails, the producer keeps it: the block is on its chain, its
\* transactions are in its confirmed store and their ids are out of its
\* mempool.
C19_ProducerKeepsBlock ==
    [][\A n \in Nodes :
          (BlockProduced(n) /\ \E m \in Peers(n) : DeliveryFails(m, last'.block))
              => Committed(n, last'.block)]_vars

\* A block was mined and a peer did not take it; the producer has it on its
\* chain, its transactions confirmed and pruned.
C19_Witness ==
    /\ last.op \in {"mine", "timer"}
    /\ "newBlock" \notin last.block.absent
    /\ last.status = 500
    /\ \E m \in Peers(last.node) : ~Stored(m, last.block)
    /\ Stored(last.node, last.block)
    /\ Len(last.block.transactions) = 5
    /\ \A i \in 1..Len(last.block.transactions) :
          /\ \E c \in confirmed[last.node] :
                c.transaction_id = last.block.transactions[i].transactionId
          /\ \A t \in mempool[last.node] :
                t.transactionId # last.block.transactions[i].transactionId

\* C20: a delivery that fails during the broadcast of /transactions/submit
\* or /blocks/mine is swallowed: whenever the local step succeeded the
\* route reports success, with the transaction admitted or the block
\* produced, however many peers failed.
C20_BroadcastFailureSwallowed ==
    [][\A n \in Nodes :
          /\ TransactionCreated(n) => last'.status = 201
          /\ (BlockProduced(n) /\ last'.op = "mine") =>
                 last'.status = 200 /\ last'.note = "Block mined and broadcast successfully."]_vars

\* In this step node n, which is not the Regulator and has no block,
\* starts while the Regulator is running: it synchronises its chain.
Synchronised(n) ==
    /\ n # RegAuth
    /\ ~up[n] /\ up'[n]
    /\ bchain[n] = <<>>
    /\ up[RegAuth]

\* C21: a node that is not the authority, starts with an empty chain and
\* synchronises against the authority's chain of blocks (the genesis
\* block and mined blocks with their transactions) ends with exactly those
\* blocks in ascending order of index, their transactions in its confirmed
\* store and none of their ids in its mempool.
C21_SynchronisedChainComplete ==
    [][\A n \in Nodes :
          Synchronised(n) =>
              /\ Len(bchain'[n]) = Len(bchain[RegAuth])
              /\ \A i \in 1..Len(bchain[RegAuth]) :
                    LET r == bchain[RegAuth][i]
                    IN  /\ bchain'[n][i].blockIndex = r.blockIndex
                        /\ bchain'[n][i].hash = r.hash
                        /\ bchain'[n][i].previousBlockHash = r.previousBlockHash
                        /\ \A k \in 1..Len(r.transactions) :
                              /\ \E c \in confirmed'[n] :
                                    c.transaction_id = r.transactions[k].transactionId
                              /\ \A t \in mempool'[n] :
                                    t.transactionId # r.transactions[k].transactionId]_vars

\* Node n is initialised in this step.
Initialised(n) == ~up[n] /\ up'[n]

\* Row r is a genesis block.
IsGenesis(r) ==
    /\ r.blockIndex = 0
    /\ r.previousBlockHash = "0"
    /\ r.transactions = <<>>
    /\ r.hash = sha256("regulator_genesis_block_v1")

\* C22: across the initialisations of the nodes, a genesis block (index 0,
\* previousBlockHash "0", no transactions, the fixed hash) is inserted on
\* the authority node only, and only when its chain is empty; the
\* initialisation of another node creates no block (what its chain gains
\* is fetched from the authority's chain), and the initialisation of a node
\* whose chain is not empty leaves the chain as it is.
C22_GenesisOnlyOnAuthority ==
    [][\A n \in Nodes :
          Initialised(n) =>
              /\ bchain[n] # <<>> => bchain'[n] = bchain[n]
              /\ (n = RegAuth /\ bchain[n] = <<>>) =>
                    Len(bchain'[n]) = 1 /\ IsGenesis(bchain'[n][1])
              /\ n # RegAuth =>
                    \A i \in 1..Len(bchain'[n]) :
                        \/ i <= Len(bchain[n])
                        \/ /\ up[RegAuth]
                           /\ \E r \in Range(bchain[RegAuth]) :
                                 /\ r.blockIndex = bchain'[n][i].blockIndex
                                 /\ r.hash = bchain'[n][i].hash
                                 /\ r.timestamp = bchain'[n][i].timestamp]_vars

\* Both nodes are initialised: the Regulator has created the genesis
\* block, and the chain of the other node is the copy it fetched.
C22_Witness ==
    /\ \A n \in Nodes : up[n]
    /\ IsGenesis(bchain[RegAuth][1])
    /\ \E n \in Nodes \ {RegAuth} :
          /\ Len(bchain[n]) = 1
          /\ bchain[n][1] = bchain[RegAuth][1]
    /\ last = NoRequest
    /\ posts = 0

\* C23: whatever register-and-broadcast-node, register-node and
\* register-nodes-bulk requests the nodes have served, the directory of a
\* node holds neither the node's own address nor an address twice.
C23_DirectoryExcludesSelfAndDuplicates ==
    \A n \in DOMAIN networkNodes :
        /\ myNodeUrl(n) \notin Range(networkNodes[n])
        /\ \A i, j \in DOMAIN networkNodes[n] :
              networkNodes[n][i] = networkNodes[n][j] => i = j

\* A node that knows two peers and more has served a bulk registration
\* that named its own address and an address it already held.
C23_Witness ==
    /\ last.op = "register-nodes-bulk"
    /\ last.status = 200
    /\ Len(networkNodes[last.node]) >= 2
    /\ \E i, j \in DOMAIN last.request.allNetworkNodes :
          /\ i < j
          /\ last.request.allNetworkNodes[i] = myNodeUrl(last.node)
          /\ last.request.allNetworkNodes[j] = networkNodes[last.node][1]
    /\ \E n \in Network : last.node # n /\ myNodeUrl(last.node) \in Range(networkNodes[n])

\* The step serves a register-node request that names an address.
NodeRegistered == last'.op = "register-node" /\ last'.status = 200

\* The step serves a register-nodes-bulk request that holds an array.
BulkRegistered == last'.op = "register-nodes-bulk" /\ last'.status = 200

\* The arrays with the elements of list in every order.
Reordered(list) ==
    {[i \in DOMAIN list |-> list[p[i]]] :
        p \in {q \in [DOMAIN list -> DOMAIN list] : \A i, j \in DOMAIN list :
                                                       q[i] = q[j] => i = j}}

\* C24: register-node and register-nodes-bulk are idempotent and
\* register-nodes-bulk is independent of the order of its list: serving the
\* request a second time leaves the directory as the first left it, and
\* the list in any other order gives a directory with the same addresses.
C24_RegistrationIdempotentAndUnordered ==
    [][\A n \in Network :
          /\ (NodeRegistered /\ last'.node = n) =>
                 /\ Registered(n, networkNodes'[n], last'.request.newNodeUrl)
                        = networkNodes'[n]
                 /\ Range(networkNodes'[n])
                        = Range(networkNodes[n])
                             \cup ({last'.request.newNodeUrl} \ {myNodeUrl(n)})
          /\ (BulkRegistered /\ last'.node = n) =>
                 LET list == last'.request.allNetworkNodes
                 IN  /\ RegisteredBulk(n, networkNodes'[n], list) = networkNodes'[n]
                     /\ \A other \in Reordered(list) :
                           Range(RegisteredBulk(n, networkNodes[n], other))
                               = Range(networkNodes'[n])
                     /\ Range(networkNodes'[n])
                            = Range(networkNodes[n]) \cup (Range(list) \ {myNodeUrl(n)})]_vars

\* A node has served a bulk registration of two addresses it did not hold,
\* which it holds now in the order of the list.
C24_Witness ==
    /\ last.op = "register-nodes-bulk"
    /\ last.status = 200
    /\ Len(last.request.allNetworkNodes) = 2
    /\ last.request.allNetworkNodes[1] # last.request.allNetworkNodes[2]
    /\ networkNodes[last.node] = last.request.allNetworkNodes
    /\ \E n \in Network : n # last.node /\ networkNodes[n] # <<>>

\* In this step node p has served the announcement of node new, under the
\* address new was started with.
Announced(p, new) ==
    /\ last'.op = "register-and-broadcast-node"
    /\ last'.node = p
    /\ last'.request = [newNodeUrl |-> myNodeUrl(new)]
    /\ new # p

\* The nodes whose address the directory of p holds.
Known(p) == {q \in Network : myNodeUrl(q) \in Range(networkNodes[p])}

\* C25: when a new node has announced itself to a peer p and every node is
\* running, the directory of p holds the new address, so does the
\* directory of every peer p knew, and the directory of the new node
\* holds p and every peer p knew, and not the new node itself.
C25_AnnouncementReachesEveryPeer ==
    [][\A p, new \in Network :
          (Announced(p, new) /\ \A n \in Network : up[n]) =>
              /\ myNodeUrl(new) \in Range(networkNodes'[p])
              /\ \A q \in Known(p) \ {new} :
                    myNodeUrl(new) \in Range(networkNodes'[q])
              /\ myNodeUrl(p) \in Range(networkNodes'[new])
              /\ \A q \in Known(p) \ {new} :
                    myNodeUrl(q) \in Range(networkNodes'[new])
              /\ myNodeUrl(new) \notin Range(networkNodes'[new])]_vars

\* The step is a call of calculateMerkleRoot.
RootCalculated == last.op = "transactions" /\ last'.op = "calculateMerkleRoot"

\* C26: for a list of exactly one transaction with row hash d,
\* calculateMerkleRoot returns sha256 of d followed by d.
C26_SingleLeafIsPadded ==
    [][(RootCalculated /\ Len(last.request.transactions) = 1) =>
          last'.note = sha256(last.request.transactions[1].rowHash
                                  \o last.request.transactions[1].rowHash)]_vars

\* One level of the reference computation: each pair of neighbours hashed
\* from left to right, the last element paired with itself when it has no
\* neighbour.
ReferenceLevel(hashes) ==
    [i \in 1..((Len(hashes) + 1) \div 2) |->
        sha256(hashes[2 * i - 1]
                   \o (IF 2 * i <= Len(hashes) THEN hashes[2 * i] ELSE hashes[2 * i - 1]))]

\* The reference computation: levels until one digest remains.
ReferenceRoot(rowHashes) ==
    LET level[k \in 0..Len(rowHashes)] ==
            IF k = 0 THEN rowHashes
            ELSE IF Len(level[k - 1]) <= 1 THEN level[k - 1]
            ELSE ReferenceLevel(level[k - 1])
    IN  level[Len(rowHashes)][1]

\* C27: for every list of two or more transactions calculateMerkleRoot
\* returns the root of the reference computation over the row hashes in
\* the order of the list, a list in another order has another root, and
\* the list is after the call as it was before.
C27_MerkleRootIsReference ==
    [][(RootCalculated /\ Len(last.request.transactions) >= 2) =>
          LET transactions == last.request.transactions
              rowHashes == [i \in DOMAIN transactions |-> transactions[i].rowHash]
          IN  /\ last'.note = ReferenceRoot(rowHashes)
              /\ \A other \in Reordered(transactions) :
                    other # transactions =>
                        calculateMerkleRoot(other) # last'.note
              /\ last'.request.transactions = transactions]_vars

\* The root of a list of five transactions, not all the same, has been
\* calculated: two levels are padded.
C27_Witness ==
    /\ last.op = "calculateMerkleRoot"
    /\ Len(last.request.transactions) = 5
    /\ last.request.transactions[1] # last.request.transactions[2]
    /\ last.request.transactions[4] # last.request.transactions[5]
    /\ last.note = sha256(
           sha256(sha256(last.request.transactions[1].rowHash
                             \o last.request.transactions[2].rowHash)
                      \o sha256(last.request.transactions[3].rowHash
                                    \o last.request.transactions[4].rowHash))
               \o sha256(sha256(last.request.transactions[5].rowHash
                                    \o last.request.transactions[5].rowHash)
                             \o sha256(last.request.transactions[5].rowHash
                                           \o last.request.transactions[5].rowHash)))

\* C28: the chain of a node is append-only: in every step of every
\* operation each row of table bchain stays at its place with the fields
\* it had, so the chain before the step is a prefix of the chain after it.
C28_ChainAppendOnly ==
    [][\A n \in Nodes :
          /\ Len(bchain[n]) <= Len(bchain'[n])
          /\ \A i \in DOMAIN bchain[n] : bchain'[n][i] = bchain[n][i]]_vars

\* The Regulator has mined a block onto a chain of two, and the project
\* node, whose chain is shorter, has not taken it.
C28_Witness ==
    /\ last.op \in {"mine", "timer"}
    /\ last.node = RegAuth
    /\ Len(bchain[RegAuth]) = 3
    /\ Stored(RegAuth, last.block)
    /\ \E n \in Nodes : Len(bchain[n]) \in 1..2

\* C29: on every node, in every reachable state, no transaction id is both
\* in the mempool and in the confirmed store: a transaction confirmed in a
\* committed block does not enter the mempool of that node again.
C29_MempoolDisjointFromConfirmed ==
    \A n \in Nodes :
        \A t \in mempool[n] : \A c \in confirmed[n] : c.transaction_id # t.transactionId

\* Every stored header has all its transactions confirmed under its id.
HeadersComplete ==
    \A r \in Range(bchain[RegAuth]) :
        \A k \in DOMAIN r.transactions :
            \E c \in confirmed[RegAuth] :
                c.transaction_id = r.transactions[k].transactionId /\ c.block_id = r.id

\* Every confirmed transaction has its header stored.
ConfirmedHaveHeader ==
    \A c \in confirmed[RegAuth] : \E r \in Range(bchain[RegAuth]) : r.id = c.block_id

\* C30: the ledger mutations of a node are serialized: however the mining
\* calls and the transaction admission interleave at their awaits, no
\* state has a partially applied commit (a stored header without all its
\* confirmed transactions, or confirmed transactions without their
\* header), and no COMMIT or ROLLBACK of one caller has ended a
\* transaction that held a write of another.
C30_LedgerMutationsSerialized ==
    /\ HeadersComplete
    /\ ConfirmedHaveHeader
    /\ ~call.shared

\* The chain of node n is a strict prefix of the chain of the Regulator,
\* and not empty.
BehindRegulator(n) ==
    /\ n # RegAuth
    /\ bchain[n] # <<>>
    /\ Len(bchain[n]) < Len(bchain[RegAuth])
    /\ \A i \in DOMAIN bchain[n] : bchain[n][i] = bchain[RegAuth][i]

\* C31: a node other than the Regulator whose chain is a strict prefix of
\* the Regulator's chain, and not empty, has the Regulator's chain after
\* its next start, when the Regulator is running.
C31_StartupRecoversMissedBlocks ==
    [][\A n \in Nodes :
          (Initialised(n) /\ BehindRegulator(n) /\ up[RegAuth])
              => bchain'[n] = bchain[RegAuth]]_vars

\* C32: on the Regulator, with the timer ticking and the storage sound,
\* whenever the mempool holds five transactions or more a new block is
\* committed later and fewer transactions are pending than before,
\* whatever was delivered (transactions already confirmed included) and
\* committed until then.
C32_MiningProgresses ==
    \A length \in 1..(MaxChain - 1) : \A count \in BLOCK_SIZE..MaxBroadcast :
        (/\ up[RegAuth]
         /\ Len(bchain[RegAuth]) = length
         /\ getMempoolCount(RegAuth) = count)
            ~> (/\ Len(bchain[RegAuth]) > length
                /\ getMempoolCount(RegAuth) < count)

IsPrefix(short, long) ==
    /\ Len(short) <= Len(long)
    /\ \A i \in DOMAIN short : short[i] = long[i]

BothDelivered ==
    /\ DOMAIN call.ops = Receivers
    /\ ~call.txn
    /\ \A o \in Receivers : call.ops[o].pc \in {"idle", "done"}
    /\ \E o1 \in Receivers : \E o2 \in Receivers \ {o1} :
          \A o \in {o1, o2} : call.ops[o].pc = "done" /\ call.ops[o].block = DeliveredBlock

\* C34: when the same valid next block is delivered twice to a node and
\* both handlers read the same last block before either commits, the block
\* and each of its transactions are stored exactly once and neither
\* request is answered with an error.
C34_ConcurrentDuplicateIsIdempotent ==
    BothDelivered =>
        /\ Cardinality({i \in DOMAIN bchain[RegAuth] :
                            bchain[RegAuth][i].hash = DeliveredBlock.hash}) = 1
        /\ \A t \in Range(DeliveredBlock.transactions) :
               Cardinality({c \in confirmed[RegAuth] :
                               c.transaction_id = t.transactionId}) = 1
        /\ \A o \in Receivers : call.ops[o].settled # "rejected"

\* C35: a transaction whose admission answered 201 is in the mempool of
\* the node, as its connection shows it, until a block that contains it
\* is committed there; the rollback of a block commit that was open when
\* the transaction was inserted does not remove it.
C35_AdmittedStaysPending ==
    (last.op = "receiveTransaction" /\ last.status = 201)
        => \/ last.tx \in View.pool
           \/ \E c \in View.conf : c.transaction_id = last.tx.transactionId

\* C36: on every node no transaction id is listed by two stored blocks: a
\* block with a transaction id that is confirmed already is never left in
\* table bchain, also when two calls of mineBlockInternal overlap.
C36_NoTransactionInTwoBlocks ==
    \A n \in Nodes : \A i \in DOMAIN bchain[n] : \A j \in DOMAIN bchain[n] :
        i # j => TxIds(bchain[n][i].transactions) \cap TxIds(bchain[n][j].transactions) = {}

\* The directories form a full mesh over the nodes joined: the directory
\* of each holds the addresses of all the others, and nothing else.
FullMesh(directories, joined) ==
    \A n \in Network :
        Range(directories[n]) =
            IF n \in joined THEN {myNodeUrl(m) : m \in joined \ {n}} ELSE {}

\* C37: when the nodes join one at a time, each announcing itself to a node
\* of the network with no request lost, the directories form a full mesh
\* after every join: from a full mesh of the nodes joined so far, the
\* announcement of a further node to one of them leads to a full mesh
\* with that node.
C37_SequentialJoinsFormFullMesh ==
    [][\A joined \in SUBSET Network : \A p \in joined : \A new \in Network \ joined :
          (/\ FullMesh(networkNodes, joined)
           /\ Announced(p, new)
           /\ \A n \in Network : up[n])
              => FullMesh(networkNodes', joined \cup {new})]_vars


=============================================================================
